---- MODULE Spec2Model ----
(***************************************************************************)
(* Orchestrator runtime of the agentic QA framework: agent registry,       *)
(* discovery, recovery loop, router, dispatcher and worker pool            *)
(* (orchestrator/main.py, orchestrator/models.py).                         *)
(*                                                                         *)
(* The program is a single asyncio event loop.  A coroutine runs without   *)
(* interruption until it awaits something that really suspends (an HTTP    *)
(* call, the oracle, a sleep, a contended lock, an empty queue).  The      *)
(* registry lock is never held across such an await, so it is never        *)
(* contended and every registry call completes without a switch.  One      *)
(* action of this model is therefore the code between two suspension       *)
(* points of one activity.                                                 *)
(***************************************************************************)
EXTENDS Integers, Sequences, FiniteSets, TLC

\* ---------------------------------------------------------------- bounds
MaxAgents == 2
MaxTasks == 3
MaxEnvChanges == 1
MaxItems == 2
\* errors recorded in a run
MaxErrors == 52
\* a log line has at most MaxParts parts separated by " - "
MaxParts == 4

\* ------------------------------------------------------ program constants
TaskHistoryMaxSize == 100
ErrorHistoryMaxSize == 50
\* the recovery loop gives up on a tuple older than 24 * 3600 seconds
GiveUpSeconds == 86400

None == "None"
NoAgent == 0
NoTask == 0
Down == "Down"
Urls == {"u1", "u2"}
AgentIds == 1..MaxAgents
TaskIds == 1..MaxTasks
Dispatches == {"d1", "d2"}
Items == 1..MaxItems
\* ids the oracle may answer: no id, every id the registry can hold, and
\* one id that is never registered
OracleIds == 0..(MaxAgents + 1)

VARIABLES
    agent_registry,      \* AgentRegistry: cards, statuses, broken context, current tasks
    next_agent_id,       \* uuid4() for agents: the next unused id
    task_history,        \* TaskHistory: ring buffer (ids) and records by id
    next_task_id,        \* uuid4() for tasks: the next unused id
    cancellation_queue,  \* asyncio.Queue of <<agent_id, timestamp>>; the model keeps
                         \* time.time() - timestamp, the age of the tuple, for timestamp
    agent_selection_lock,\* holder of the selection lock, or None
    serves,              \* environment: url advertised by the card served at a url, or Down
    env_changes,         \* number of environment changes so far
    pc,                  \* per dispatch: position in _send_task_to_agent_with_message
    internal_task_id,    \* per dispatch
    agent_id,            \* per dispatch: agent_id of _wait_and_reserve_agent
    available_agent_ids, \* per dispatch: the snapshot handed to _select_agent
    last_task,           \* per dispatch: id of the last task seen on the stream
    outcome,             \* per dispatch: how the last call ended
    error_records,       \* per dispatch: ErrorRecords its request has added to error_history
    response,            \* per dispatch: <<endpoint, HTTP status>> of the answer, or None
    registry_call,       \* the last call of the registry API made from outside the orchestrator
    reader,              \* dashboard: what its last call of a TaskHistory accessor returned
    error_history,       \* ErrorHistory: the deque of ErrorRecords (ids), oldest first
    errors_read,         \* dashboard: <<limit, what get_recent(limit) returned>>
    raw_logs,            \* dashboard: the agent_logs handed to _parse_agent_logs
    entries,             \* dashboard: the LogEntry list _parse_agent_logs returned
    discovery_pc,        \* per url: position of _process_url_discovery
    existing_agent_id,   \* per url: existing_agent_id of _process_url_discovery
    started,             \* lifespan: the initial discovery has finished, requests are served
    recovery_pc,         \* position of _retry_cancellation_task
    recovery_item,       \* the tuple the recovery loop works on
    recovery_card,       \* agent_card of _retry_cancellation_task
    recovery_stuck,      \* stuck_task_id of _retry_cancellation_task (NoTask: none)
    group_pc,            \* position of execute_tests for one label
    group_available,     \* available_agent_ids of _select_all_suitable_agent_ids
    valid_agent_ids,     \* the pool of _execute_test_group
    test_queue,          \* the asyncio.Queue of the group: items not yet taken
    unfinished,          \* its count of unfinished tasks (put minus task_done)
    worker_pc,           \* per agent: position of its _agent_worker
    results              \* results of the group: <<item, status>>

registryVars == <<agent_registry, next_agent_id>>
historyVars == <<task_history, next_task_id>>
envVars == <<serves, env_changes>>
dispatchVars == <<pc, internal_task_id, agent_id, available_agent_ids, last_task, outcome,
                  error_records>>
dashboardVars == <<reader, error_history, errors_read, raw_logs, entries>>
callerVars == <<response, registry_call, dashboardVars>>
discoveryVars == <<discovery_pc, existing_agent_id, started>>
recoveryVars == <<recovery_pc, recovery_item, recovery_card, recovery_stuck>>
groupVars == <<group_pc, group_available, valid_agent_ids, test_queue, unfinished, worker_pc, results>>
backgroundVars == <<discoveryVars, recoveryVars, groupVars>>

\* ------------------------------------------------------------ AgentRegistry
EmptyRegistry ==
    [cards |-> [a \in AgentIds |-> None],
     statuses |-> [a \in AgentIds |-> None],
     broken_reasons |-> [a \in AgentIds |-> None],
     stuck_task_ids |-> [a \in AgentIds |-> NoTask],
     current_tasks |-> [a \in AgentIds |-> NoTask]]

\* a register that makes every agent it registers AVAILABLE
register_resets(reg, id, card) ==
    [reg EXCEPT !.cards[id] = card,
                !.statuses[id] = "AVAILABLE"]

register(reg, id, card) ==
    [reg EXCEPT !.cards[id] = card,
                !.statuses[id] = IF @ = None THEN "AVAILABLE" ELSE @]

\* an update_status that keeps the broken context of an agent it makes AVAILABLE
update_status_keeps_context(reg, id, status, broken_reason, stuck_task_id) ==
    IF id \notin AgentIds \/ reg.cards[id] = None THEN reg
    ELSE IF status = "BROKEN" /\ broken_reason # None
         THEN [reg EXCEPT !.statuses[id] = status,
                          !.broken_reasons[id] = broken_reason,
                          !.stuck_task_ids[id] =
                              IF stuck_task_id # NoTask THEN stuck_task_id ELSE @]
    ELSE [reg EXCEPT !.statuses[id] = status]

update_status(reg, id, status, broken_reason, stuck_task_id) ==
    IF id \notin AgentIds \/ reg.cards[id] = None THEN reg
    ELSE IF status = "BROKEN" /\ broken_reason # None
         THEN [reg EXCEPT !.statuses[id] = status,
                          !.broken_reasons[id] = broken_reason,
                          !.stuck_task_ids[id] =
                              IF stuck_task_id # NoTask THEN stuck_task_id ELSE @]
    ELSE IF status = "AVAILABLE"
         THEN [reg EXCEPT !.statuses[id] = status,
                          !.broken_reasons[id] = None,
                          !.stuck_task_ids[id] = NoTask,
                          !.current_tasks[id] = NoTask]
    ELSE [reg EXCEPT !.statuses[id] = status]

\* a set_current_task that only ever clears
set_current_task_clears(reg, id, task_id) ==
    IF id \notin AgentIds THEN reg
    ELSE [reg EXCEPT !.current_tasks[id] = NoTask]

set_current_task(reg, id, task_id) ==
    IF id \notin AgentIds THEN reg
    ELSE [reg EXCEPT !.current_tasks[id] = task_id]

get_status(reg, id) ==
    IF id \in AgentIds /\ reg.statuses[id] # None THEN reg.statuses[id] ELSE "BROKEN"

get_card(reg, id) ==
    IF id \in AgentIds THEN reg.cards[id] ELSE None

get_broken_context(reg, id) ==
    IF id \in AgentIds
    THEN <<reg.broken_reasons[id], reg.stuck_task_ids[id]>>
    ELSE <<None, NoTask>>

get_broken_agents(reg) ==
    [a \in {b \in AgentIds : reg.statuses[b] = "BROKEN"} |->
        <<reg.broken_reasons[a], reg.stuck_task_ids[a]>>]

remove(reg, id) ==
    [reg EXCEPT !.cards[id] = None,
                !.statuses[id] = None,
                !.broken_reasons[id] = None,
                !.stuck_task_ids[id] = NoTask,
                !.current_tasks[id] = NoTask]

get_all_cards(reg) == {a \in AgentIds : reg.cards[a] # None}

is_empty(reg) == get_all_cards(reg) = {}

contains(reg, id) == id \in AgentIds /\ reg.cards[id] # None

\* a lookup that never finds the url
get_agent_id_by_url_misses(reg, url) == NoAgent

get_agent_id_by_url(reg, url) ==
    IF \E a \in AgentIds : reg.cards[a] = url
    THEN CHOOSE a \in AgentIds :
             reg.cards[a] = url /\ \A b \in AgentIds : reg.cards[b] = url => a <= b
    ELSE NoAgent

\* the ids whose status is AVAILABLE
get_available_agents(reg) == {a \in AgentIds : reg.statuses[a] = "AVAILABLE"}

\* ------------------------------------------------------------- TaskHistory
EmptyTaskHistory ==
    [tasks |-> <<>>,
     by_id |-> [t \in TaskIds |-> None]]

\* an add that never evicts
task_history_add_unbounded(h, task_id) ==
    [tasks |-> Append(h.tasks, task_id),
     by_id |-> [h.by_id EXCEPT ![task_id] = "RUNNING"]]

\* of a TaskRecord the model keeps the status
task_history_add(h, task_id) ==
    [tasks |-> IF Len(h.tasks) = TaskHistoryMaxSize
               THEN Append(Tail(h.tasks), task_id)
               ELSE Append(h.tasks, task_id),
     by_id |-> [h.by_id EXCEPT ![task_id] = "RUNNING"]]

task_history_update(h, task_id, status) ==
    IF task_id \in TaskIds /\ h.by_id[task_id] # None
    THEN [h EXCEPT !.by_id[task_id] = status]
    ELSE h

\* --------------------------------------------------------------- Dispatcher
\* what a caller of _send_task_to_agent_with_message gets
Raised == {"NoAgents", "NoneSuitable", "ReservationTimeout", "TimedOut",
           "ProtocolError", "AgentCrashed"}
Returned == {"completed", "failed", "rejected"}

\* a put that loses the tuple
put_loses(queue, id) == queue

\* cancellation_queue.put((agent_id, time.time()))
put(queue, id) == Append(queue, <<id, 0>>)

\* a _select_agent that trusts the oracle
select_agent_trusts(selected_agent_id, available) == selected_agent_id

\* the validation in _select_agent of the oracle's answer
select_agent(selected_agent_id, available) ==
    IF selected_agent_id # NoAgent /\ selected_agent_id \in available
    THEN selected_agent_id ELSE NoAgent

\* _get_agents_info: the agents of the snapshot that have a card
get_agents_info(reg, available) == {a \in available : reg.cards[a] # None}

\* _handle_exception adds an ErrorRecord for the error it raises (the add is
\* scheduled with create_task and runs at the next suspension point); the
\* re-raised exception of the generic handler and a returned task pass by it
handle_exception(records, result) ==
    IF result \in Raised \ {"AgentCrashed"} THEN records + 1 ELSE records

\* an end of the call that raises every error with the default status 500
finish_default_status(d, result) ==
    /\ pc' = [pc EXCEPT ![d] = "done"]
    /\ outcome' = [outcome EXCEPT ![d] = IF result \in Raised THEN "ProtocolError" ELSE result]
    /\ error_records' = [error_records EXCEPT ![d] = handle_exception(@, result)]

\* the call returns the task or raises
finish(d, result) ==
    /\ pc' = [pc EXCEPT ![d] = "done"]
    /\ outcome' = [outcome EXCEPT ![d] = result]
    /\ error_records' = [error_records EXCEPT ![d] = handle_exception(@, result)]

\* entry of _send_task_to_agent_with_message and of _wait_and_reserve_agent.
\* internal_task_id is a uuid4 drawn here and first stored at the reservation;
\* the model names it when it is first stored.
send_task_start(d) ==
    /\ started
    /\ pc[d] = "idle"
    /\ IF is_empty(agent_registry)
       THEN finish(d, "NoAgents")
       ELSE /\ pc' = [pc EXCEPT ![d] = "acquire"]
            /\ UNCHANGED <<outcome, error_records>>
    /\ UNCHANGED <<registryVars, historyVars, cancellation_queue,
                   agent_selection_lock, envVars, callerVars, backgroundVars, internal_task_id,
                   agent_id, available_agent_ids, last_task>>

\* async with agent_selection_lock: snapshot, _get_agents_info, up to the
\* oracle call
wait_and_reserve_acquire(d) ==
    /\ pc[d] = "acquire"
    /\ agent_selection_lock = None
    /\ LET available == get_available_agents(agent_registry) IN
       IF available = {}
       THEN /\ pc' = [pc EXCEPT ![d] = "sleep"]
            /\ UNCHANGED <<agent_selection_lock, available_agent_ids, outcome,
                           error_records>>
       ELSE IF get_agents_info(agent_registry, available) = {}
       THEN /\ finish(d, "NoneSuitable")
            /\ UNCHANGED <<agent_selection_lock, available_agent_ids>>
       ELSE /\ pc' = [pc EXCEPT ![d] = "oracle"]
            /\ agent_selection_lock' = d
            /\ available_agent_ids' = [available_agent_ids EXCEPT ![d] = available]
            /\ UNCHANGED <<outcome, error_records>>
    /\ UNCHANGED <<registryVars, task_history, next_task_id, cancellation_queue,
                   envVars, callerVars, backgroundVars, internal_task_id, agent_id, last_task>>

\* a reservation that trusts the snapshot and skips the re-check of the status
wait_and_reserve_select_unchecked(d, answer) ==
    /\ pc[d] = "oracle"
    /\ agent_selection_lock' = None
    /\ available_agent_ids' = [available_agent_ids EXCEPT ![d] = {}]
    /\ LET selected == select_agent(answer, available_agent_ids[d]) IN
       IF selected = NoAgent
       THEN /\ finish(d, "NoneSuitable")
            /\ UNCHANGED <<agent_registry, historyVars, agent_id, internal_task_id>>
       ELSE /\ next_task_id <= MaxTasks
            /\ internal_task_id' = [internal_task_id EXCEPT ![d] = next_task_id]
            /\ next_task_id' = next_task_id + 1
            /\ agent_registry' =
                  set_current_task(
                      update_status(agent_registry, selected, "BUSY", None, NoTask),
                      selected, next_task_id)
            /\ task_history' = task_history_add(task_history, next_task_id)
            /\ agent_id' = [agent_id EXCEPT ![d] = selected]
            /\ pc' = [pc EXCEPT ![d] = "stream"]
            /\ UNCHANGED <<outcome, error_records>>
    /\ UNCHANGED <<next_agent_id, cancellation_queue, envVars, callerVars, backgroundVars,
                   last_task>>

\* the oracle answers; validation, re-check of the status, reservation,
\* TaskRecord(RUNNING) and set_current_task
wait_and_reserve_select(d, answer) ==
    /\ pc[d] = "oracle"
    /\ agent_selection_lock' = None
    /\ available_agent_ids' = [available_agent_ids EXCEPT ![d] = {}]
    /\ LET selected == select_agent(answer, available_agent_ids[d]) IN
       IF selected = NoAgent
       THEN /\ finish(d, "NoneSuitable")
            /\ UNCHANGED <<agent_registry, historyVars, agent_id, internal_task_id>>
       ELSE IF get_status(agent_registry, selected) = "AVAILABLE"
               /\ get_card(agent_registry, selected) # None
       THEN /\ next_task_id <= MaxTasks
            /\ internal_task_id' = [internal_task_id EXCEPT ![d] = next_task_id]
            /\ next_task_id' = next_task_id + 1
            /\ agent_registry' =
                  set_current_task(
                      update_status(agent_registry, selected, "BUSY", None, NoTask),
                      selected, next_task_id)
            /\ task_history' = task_history_add(task_history, next_task_id)
            /\ agent_id' = [agent_id EXCEPT ![d] = selected]
            /\ pc' = [pc EXCEPT ![d] = "stream"]
            /\ UNCHANGED <<outcome, error_records>>
       ELSE /\ pc' = [pc EXCEPT ![d] = "sleep"]
            /\ UNCHANGED <<agent_registry, historyVars, agent_id, internal_task_id,
                           outcome, error_records>>
    /\ UNCHANGED <<next_agent_id, cancellation_queue, envVars, callerVars, backgroundVars,
                   last_task>>

\* the oracle call raises: the generic handler of the dispatcher runs with
\* agent_id = None and with the internal_task_id of the call, which no
\* TaskRecord has
wait_and_reserve_oracle_raises(d) ==
    /\ pc[d] = "oracle"
    /\ next_task_id <= MaxTasks
    /\ next_task_id' = next_task_id + 1
    /\ internal_task_id' = [internal_task_id EXCEPT ![d] = next_task_id]
    /\ agent_selection_lock' = None
    /\ available_agent_ids' = [available_agent_ids EXCEPT ![d] = {}]
    /\ task_history' = task_history_update(task_history, next_task_id, "FAILED")
    /\ agent_registry' =
           set_current_task(
               update_status(agent_registry, NoAgent, "BROKEN", "OFFLINE", NoTask),
               NoAgent, NoTask)
    /\ cancellation_queue' = put(cancellation_queue, NoAgent)
    /\ finish(d, "AgentCrashed")
    /\ UNCHANGED <<next_agent_id, envVars, callerVars, backgroundVars, agent_id, last_task>>

\* end of the back-off sleep: next round, or the deadline has passed
wait_and_reserve_wake(d, deadline) ==
    /\ pc[d] = "sleep"
    /\ IF deadline
       THEN finish(d, "ReservationTimeout")
       ELSE /\ pc' = [pc EXCEPT ![d] = "acquire"]
            /\ UNCHANGED <<outcome, error_records>>
    /\ UNCHANGED <<registryVars, task_history, next_task_id, cancellation_queue,
                   agent_selection_lock, envVars, callerVars, backgroundVars, internal_task_id,
                   agent_id, available_agent_ids, last_task>>

\* a release that clears the current task and forgets the status
release_keeps_status(reg, id, status, broken_reason, stuck_task_id) ==
    set_current_task(reg, id, NoTask)

\* release of the agent at the end of a dispatch
release(reg, id, status, broken_reason, stuck_task_id) ==
    set_current_task(update_status(reg, id, status, broken_reason, stuck_task_id),
                     id, NoTask)

\* a terminal event that finalises every TaskRecord as FAILED
stream_terminal_fails(d, state) ==
    /\ pc[d] = "stream"
    /\ task_history' = task_history_update(task_history, internal_task_id[d], "FAILED")
    /\ agent_registry' = release(agent_registry, agent_id[d], "AVAILABLE", None, NoTask)
    /\ finish(d, state)
    /\ UNCHANGED <<next_agent_id, next_task_id, cancellation_queue,
                   agent_selection_lock, envVars, callerVars, backgroundVars, internal_task_id,
                   agent_id, available_agent_ids, last_task>>

\* a (task, _) event with a terminal state: finalise, _save_agent_logs_from_task
\* (which stores nothing: TaskHistory has no update_logs, the AttributeError
\* is caught and logged), release, return the task
stream_terminal(d, state) ==
    /\ pc[d] = "stream"
    /\ task_history' = task_history_update(task_history, internal_task_id[d],
                           IF state = "completed" THEN "COMPLETED" ELSE "FAILED")
    /\ agent_registry' = release(agent_registry, agent_id[d], "AVAILABLE", None, NoTask)
    /\ finish(d, state)
    /\ UNCHANGED <<next_agent_id, next_task_id, cancellation_queue,
                   agent_selection_lock, envVars, callerVars, backgroundVars, internal_task_id,
                   agent_id, available_agent_ids, last_task>>

\* the overall deadline: the while loop ends
overall_timeout(d) ==
    /\ task_history' = task_history_update(task_history, internal_task_id[d], "FAILED")
    /\ agent_registry' = release(agent_registry, agent_id[d], "BROKEN", "TASK_STUCK", NoTask)
    /\ cancellation_queue' = put(cancellation_queue, agent_id[d])
    /\ finish(d, "TimedOut")

\* a (task, _) event with a non-terminal state, or a Message; then the loop
\* condition is evaluated again
stream_progress(d, is_task, deadline) ==
    /\ pc[d] = "stream"
    /\ last_task' = [last_task EXCEPT ![d] = IF is_task THEN internal_task_id[d] ELSE @]
    /\ IF deadline
       THEN overall_timeout(d)
       ELSE UNCHANGED <<agent_registry, task_history, cancellation_queue, pc, outcome,
                        error_records>>
    /\ UNCHANGED <<next_agent_id, next_task_id, agent_selection_lock, envVars, callerVars,
                   backgroundVars, internal_task_id, agent_id, available_agent_ids>>

\* StopAsyncIteration; last_task is never terminal here, a terminal task
\* event has returned before
stream_end(d) ==
    /\ pc[d] = "stream"
    /\ task_history' = task_history_update(task_history, internal_task_id[d], "FAILED")
    /\ agent_registry' = release(agent_registry, agent_id[d], "AVAILABLE", None, NoTask)
    /\ finish(d, "ProtocolError")
    /\ UNCHANGED <<next_agent_id, next_task_id, cancellation_queue,
                   agent_selection_lock, envVars, callerVars, backgroundVars, internal_task_id,
                   agent_id, available_agent_ids, last_task>>

\* a JSONRPCErrorResponse event
stream_jsonrpc_error(d) ==
    /\ pc[d] = "stream"
    /\ task_history' = task_history_update(task_history, internal_task_id[d], "FAILED")
    /\ agent_registry' = release(agent_registry, agent_id[d], "AVAILABLE", None, NoTask)
    /\ finish(d, "ProtocolError")
    /\ UNCHANGED <<next_agent_id, next_task_id, cancellation_queue,
                   agent_selection_lock, envVars, callerVars, backgroundVars, internal_task_id,
                   agent_id, available_agent_ids, last_task>>

\* asyncio.TimeoutError of wait_for: the per-event deadline
stream_timeout(d) ==
    /\ pc[d] = "stream"
    /\ task_history' = task_history_update(task_history, internal_task_id[d], "FAILED")
    /\ agent_registry' = release(agent_registry, agent_id[d], "BROKEN", "TASK_STUCK",
                                 last_task[d])
    /\ cancellation_queue' = put(cancellation_queue, agent_id[d])
    /\ finish(d, "TimedOut")
    /\ UNCHANGED <<next_agent_id, next_task_id, agent_selection_lock, envVars, callerVars,
                   backgroundVars, internal_task_id, agent_id, available_agent_ids,
                   last_task>>

\* any other exception while the stream is read
stream_exception(d) ==
    /\ pc[d] = "stream"
    /\ task_history' = task_history_update(task_history, internal_task_id[d], "FAILED")
    /\ agent_registry' = release(agent_registry, agent_id[d], "BROKEN", "OFFLINE", NoTask)
    /\ cancellation_queue' = put(cancellation_queue, agent_id[d])
    /\ finish(d, "AgentCrashed")
    /\ UNCHANGED <<next_agent_id, next_task_id, agent_selection_lock, envVars, callerVars,
                   backgroundVars, internal_task_id, agent_id, available_agent_ids,
                   last_task>>

\* ---------------------------------------------------------------- Endpoints
\* the workflow endpoints that make one dispatch and answer with its result
Endpoints == {"review-requirements", "generate-tests", "update-index"}

\* the status code of the HTTPException that the dispatcher raises; FastAPI
\* answers 500 for the transport exception that is re-raised as it is
status_code(result) ==
    CASE result \in {"NoAgents", "NoneSuitable"} -> 404
      [] result = "ReservationTimeout" -> 503
      [] result = "TimedOut" -> 408
      [] OTHER -> 500

\* an endpoint that takes every returned task for a success
endpoint_answer_unvalidated(endpoint, result, artifacts) ==
    IF result \in Raised
    THEN IF endpoint = "update-index" THEN <<500, 1>> ELSE <<status_code(result), 0>>
    ELSE <<200, 0>>

\* <<status of the answer, ErrorRecords added by the endpoint>> for the result
\* of the dispatch: _validate_task_status, _get_artifacts_from_task, and the
\* except clause of update_rag_db, which turns every exception into a 500
endpoint_answer(endpoint, result, artifacts) ==
    LET direct ==
            IF result \in Raised THEN <<status_code(result), 0>>
            ELSE IF result # "completed" THEN <<500, 1>>
            ELSE IF endpoint # "review-requirements" /\ ~artifacts THEN <<500, 1>>
            ELSE <<200, 0>>
    IN  IF endpoint = "update-index" /\ direct[1] # 200
        THEN <<500, direct[2] + 1>>
        ELSE direct

\* the endpoint has the result of its dispatch and answers the request
endpoint_respond(d, endpoint, artifacts) ==
    /\ pc[d] = "done"
    /\ pc' = [pc EXCEPT ![d] = "responded"]
    /\ LET answer == endpoint_answer(endpoint, outcome[d], artifacts) IN
       /\ response' = [response EXCEPT ![d] = <<endpoint, answer[1]>>]
       /\ error_records' = [error_records EXCEPT ![d] = @ + answer[2]]
    /\ UNCHANGED <<registryVars, historyVars, cancellation_queue, agent_selection_lock,
                   envVars, registry_call, dashboardVars, backgroundVars, internal_task_id, agent_id,
                   available_agent_ids, last_task, outcome>>

\* the caller has the result; the locals of the call are gone
send_task_return(d) ==
    /\ pc[d] \in {"done", "responded"}
    /\ pc' = [pc EXCEPT ![d] = "idle"]
    /\ outcome' = [outcome EXCEPT ![d] = None]
    /\ error_records' = [error_records EXCEPT ![d] = 0]
    /\ response' = [response EXCEPT ![d] = None]
    /\ internal_task_id' = [internal_task_id EXCEPT ![d] = NoTask]
    /\ agent_id' = [agent_id EXCEPT ![d] = NoAgent]
    /\ last_task' = [last_task EXCEPT ![d] = NoTask]
    /\ UNCHANGED <<registryVars, historyVars, cancellation_queue, agent_selection_lock,
                   envVars, registry_call, dashboardVars, backgroundVars, available_agent_ids>>

\* ---------------------------------------------------------------- Discovery
\* _fetch_agent_card and _check_agent_reachability read the same endpoint
fetch_agent_card(url) == IF url \in Urls THEN serves[url] ELSE Down

check_agent_reachability(url) == fetch_agent_card(url) # Down

\* _discover_agents: one _process_url_discovery per url, gathered; called by
\* lifespan before requests are served and then by periodic_agent_discovery.
\* The gathered tasks are started one after the other, and each runs up to
\* its first HTTP call, the lookup of its url included, before anything else
\* is scheduled
discover_agents_start ==
    /\ \A u \in Urls : discovery_pc[u] = "idle"
    /\ existing_agent_id' = [u \in Urls |-> get_agent_id_by_url(agent_registry, u)]
    /\ discovery_pc' = [u \in Urls |->
                           IF existing_agent_id'[u] # NoAgent THEN "probe" ELSE "fetch"]
    /\ UNCHANGED <<registryVars, historyVars, cancellation_queue, agent_selection_lock,
                   envVars, callerVars, dispatchVars, groupVars, started, recoveryVars>>

\* a registered-url branch that resets every reachable BROKEN agent
process_url_discovery_existing_resets(url) ==
    /\ discovery_pc[url] = "probe"
    /\ LET id == existing_agent_id[url] IN
       agent_registry' =
           IF check_agent_reachability(url)
           THEN IF get_status(agent_registry, id) = "BROKEN"
                THEN update_status(agent_registry, id, "AVAILABLE", None, NoTask)
                ELSE agent_registry
           ELSE remove(agent_registry, id)
    /\ discovery_pc' = [discovery_pc EXCEPT ![url] = "done"]
    /\ existing_agent_id' = [existing_agent_id EXCEPT ![url] = NoAgent]
    /\ UNCHANGED <<next_agent_id, historyVars, cancellation_queue, agent_selection_lock,
                   envVars, callerVars, dispatchVars, groupVars, started, recoveryVars>>

\* the url is registered: the reachability probe has answered
process_url_discovery_existing(url) ==
    /\ discovery_pc[url] = "probe"
    /\ LET id == existing_agent_id[url] IN
       agent_registry' =
           IF check_agent_reachability(url)
           THEN IF get_status(agent_registry, id) = "BROKEN"
                   /\ get_broken_context(agent_registry, id)[1] = "OFFLINE"
                THEN update_status(agent_registry, id, "AVAILABLE", None, NoTask)
                ELSE agent_registry
           ELSE remove(agent_registry, id)
    /\ discovery_pc' = [discovery_pc EXCEPT ![url] = "done"]
    /\ existing_agent_id' = [existing_agent_id EXCEPT ![url] = NoAgent]
    /\ UNCHANGED <<next_agent_id, historyVars, cancellation_queue, agent_selection_lock,
                   envVars, callerVars, dispatchVars, groupVars, started, recoveryVars>>

\* a new-url branch that registers the card without looking for its url
process_url_discovery_new_unchecked(url) ==
    /\ discovery_pc[url] = "fetch"
    /\ LET agent_card == fetch_agent_card(url) IN
       IF agent_card # Down
       THEN /\ next_agent_id <= MaxAgents
            /\ agent_registry' = register(agent_registry, next_agent_id, agent_card)
            /\ next_agent_id' = next_agent_id + 1
       ELSE UNCHANGED registryVars
    /\ discovery_pc' = [discovery_pc EXCEPT ![url] = "done"]
    /\ UNCHANGED <<historyVars, cancellation_queue, agent_selection_lock, envVars, callerVars,
                   dispatchVars, groupVars, existing_agent_id, started, recoveryVars>>

\* the url is not registered: the card fetch has answered
process_url_discovery_new(url) ==
    /\ discovery_pc[url] = "fetch"
    /\ LET agent_card == fetch_agent_card(url) IN
       IF agent_card # Down /\ get_agent_id_by_url(agent_registry, agent_card) = NoAgent
       THEN /\ next_agent_id <= MaxAgents
            /\ agent_registry' = register(agent_registry, next_agent_id, agent_card)
            /\ next_agent_id' = next_agent_id + 1
       ELSE UNCHANGED registryVars
    /\ discovery_pc' = [discovery_pc EXCEPT ![url] = "done"]
    /\ UNCHANGED <<historyVars, cancellation_queue, agent_selection_lock, envVars, callerVars,
                   dispatchVars, groupVars, existing_agent_id, started, recoveryVars>>

\* asyncio.gather returns
discover_agents_end ==
    /\ \A u \in Urls : discovery_pc[u] = "done"
    /\ discovery_pc' = [u \in Urls |-> "idle"]
    /\ started' = TRUE
    /\ UNCHANGED <<registryVars, historyVars, cancellation_queue, agent_selection_lock,
                   envVars, callerVars, dispatchVars, groupVars, existing_agent_id, recoveryVars>>

\* ------------------------------------------------------------ Recovery loop
\* _retry_cancellation_task from cancellation_queue.get() to its first HTTP call
retry_cancellation_get ==
    /\ started
    /\ recovery_pc = "get"
    /\ cancellation_queue # <<>>
    /\ cancellation_queue' = Tail(cancellation_queue)
    /\ LET item == Head(cancellation_queue)
           context == get_broken_context(agent_registry, item[1])
           card == get_card(agent_registry, item[1]) IN
       IF item[2] > GiveUpSeconds \/ card = None
       THEN UNCHANGED recoveryVars
       ELSE /\ recovery_item' = item
            /\ recovery_card' = card
            /\ recovery_stuck' = IF context[1] = "TASK_STUCK" THEN context[2] ELSE NoTask
            /\ recovery_pc' = IF context[1] = "TASK_STUCK" /\ context[2] # NoTask
                              THEN "cancel" ELSE "probe"
    /\ UNCHANGED <<registryVars, historyVars, agent_selection_lock, envVars, callerVars,
                   dispatchVars, groupVars, discoveryVars>>

\* the loop is back at cancellation_queue.get(); its locals are gone
retry_cancellation_next ==
    /\ recovery_pc' = "get"
    /\ recovery_item' = <<NoAgent, 0>>
    /\ recovery_card' = None
    /\ recovery_stuck' = NoTask

\* _cancel_agent_task has answered: acknowledged with state canceled, or not
\* (an agent that is down acknowledges nothing)
retry_cancellation_cancelled(cancel_success) ==
    /\ recovery_pc = "cancel"
    /\ cancel_success => check_agent_reachability(recovery_card)
    /\ IF cancel_success
       THEN /\ agent_registry' =
                   update_status(agent_registry, recovery_item[1], "AVAILABLE", None, NoTask)
            /\ retry_cancellation_next
       ELSE /\ recovery_pc' = "probe"
            /\ UNCHANGED <<agent_registry, recovery_item, recovery_card, recovery_stuck>>
    /\ UNCHANGED <<next_agent_id, historyVars, cancellation_queue, agent_selection_lock,
                   envVars, callerVars, dispatchVars, groupVars, discoveryVars>>

\* a probe of the recovery loop that never changes the reason
retry_cancellation_probed_keeps_reason ==
    /\ recovery_pc = "probe"
    /\ IF fetch_agent_card(recovery_card) # Down
       THEN /\ agent_registry' =
                   update_status(agent_registry, recovery_item[1], "AVAILABLE", None, NoTask)
            /\ retry_cancellation_next
       ELSE /\ agent_registry' = agent_registry
            /\ recovery_pc' = "sleep"
            /\ recovery_stuck' = NoTask
            /\ UNCHANGED <<recovery_item, recovery_card>>
    /\ UNCHANGED <<next_agent_id, historyVars, cancellation_queue, agent_selection_lock,
                   envVars, callerVars, dispatchVars, groupVars, discoveryVars>>

\* _fetch_agent_card has answered
retry_cancellation_probed ==
    /\ recovery_pc = "probe"
    /\ IF fetch_agent_card(recovery_card) # Down
       THEN /\ agent_registry' =
                   update_status(agent_registry, recovery_item[1], "AVAILABLE", None, NoTask)
            /\ retry_cancellation_next
       ELSE /\ agent_registry' =
                   IF recovery_stuck # NoTask
                   THEN update_status(agent_registry, recovery_item[1], "BROKEN",
                                      "OFFLINE", NoTask)
                   ELSE agent_registry
            /\ recovery_pc' = "sleep"
            /\ recovery_stuck' = NoTask
            /\ UNCHANGED <<recovery_item, recovery_card>>
    /\ UNCHANGED <<next_agent_id, historyVars, cancellation_queue, agent_selection_lock,
                   envVars, callerVars, dispatchVars, groupVars, discoveryVars>>

\* an end of the sleep that stamps the tuple with the time of the re-enqueue
retry_cancellation_requeue_restamps ==
    /\ recovery_pc = "sleep"
    /\ cancellation_queue' = put(cancellation_queue, recovery_item[1])
    /\ retry_cancellation_next
    /\ UNCHANGED <<registryVars, historyVars, agent_selection_lock, envVars, callerVars,
                   dispatchVars, groupVars, discoveryVars>>

\* an end of the sleep that forgets the tuple
retry_cancellation_requeue_drops ==
    /\ recovery_pc = "sleep"
    /\ cancellation_queue' = cancellation_queue
    /\ retry_cancellation_next
    /\ UNCHANGED <<registryVars, historyVars, agent_selection_lock, envVars, callerVars,
                   dispatchVars, groupVars, discoveryVars>>

\* the 60 s sleep is over: the tuple goes back on the queue
retry_cancellation_requeue ==
    /\ recovery_pc = "sleep"
    /\ cancellation_queue' = Append(cancellation_queue, recovery_item)
    /\ retry_cancellation_next
    /\ UNCHANGED <<registryVars, historyVars, agent_selection_lock, envVars, callerVars,
                   dispatchVars, groupVars, discoveryVars>>

\* -------------------------------------------------------------- Environment
\* an agent goes down, comes up, or changes the url its card advertises
env_change(url, card) ==
    /\ env_changes < MaxEnvChanges
    /\ serves[url] # card
    /\ serves' = [serves EXCEPT ![url] = card]
    /\ env_changes' = env_changes + 1
    /\ UNCHANGED <<callerVars, registryVars, historyVars, cancellation_queue, agent_selection_lock,
                   dispatchVars, groupVars, discoveryVars, recoveryVars>>

\* more than 24 hours pass: every tuple is that much older (an age beyond the
\* limit is not counted further)
older(item) == IF item[2] > GiveUpSeconds THEN item ELSE <<item[1], item[2] + GiveUpSeconds + 1>>

tick ==
    /\ cancellation_queue' = [i \in DOMAIN cancellation_queue |-> older(cancellation_queue[i])]
    /\ recovery_item' = IF recovery_pc = "get" THEN recovery_item ELSE older(recovery_item)
    /\ cancellation_queue' # cancellation_queue \/ recovery_item' # recovery_item
    /\ UNCHANGED <<registryVars, historyVars, agent_selection_lock, envVars, callerVars,
                   dispatchVars, groupVars, discoveryVars, recovery_pc, recovery_card,
                   recovery_stuck>>

\* -------------------------------------------------------------- Dashboard
\* TaskHistory.get_all: a new list of the TaskRecord objects of the deque,
\* newest first.  A TaskRecord object is named by its task id: the deque and
\* the index hold the same object
get_all(h) == [i \in 1..Len(h.tasks) |-> h.tasks[Len(h.tasks) + 1 - i]]

\* TaskHistory.get_by_id: the TaskRecord object of the index, or nothing
get_by_id(h, task_id) ==
    IF task_id \in DOMAIN h.by_id /\ h.by_id[task_id] # None THEN <<task_id>> ELSE <<>>

\* what a holder of TaskRecord objects reads in them: update writes the
\* fields of the object in place
fields(h, records) == [i \in DOMAIN records |-> h.by_id[records[i]]]

\* the dashboard has not called an accessor
NoRead == [accessor |-> None, records |-> <<>>, seen |-> <<>>]

\* the dashboard calls TaskHistory.get_all and keeps what it got; seen is
\* what it read in the records at that moment
tasks_get_all ==
    /\ reader' = [accessor |-> "get_all",
                  records |-> get_all(task_history),
                  seen |-> fields(task_history, get_all(task_history))]
    /\ reader' # reader
    /\ UNCHANGED <<registryVars, historyVars, cancellation_queue, agent_selection_lock,
                   envVars, response, registry_call, error_history, errors_read, raw_logs,
                   entries, dispatchVars, backgroundVars>>

\* the dashboard calls TaskHistory.get_by_id
tasks_get_by_id(task_id) ==
    /\ reader' = [accessor |-> "get_by_id",
                  records |-> get_by_id(task_history, task_id),
                  seen |-> fields(task_history, get_by_id(task_history, task_id))]
    /\ reader' # reader
    /\ UNCHANGED <<registryVars, historyVars, cancellation_queue, agent_selection_lock,
                   envVars, response, registry_call, error_history, errors_read, raw_logs,
                   entries, dispatchVars, backgroundVars>>

\* ErrorHistory.add, on a deque(maxlen = ErrorHistoryMaxSize): the append to a
\* full deque drops the record at the other end
error_history_append(errors, error) ==
    IF Len(errors) = ErrorHistoryMaxSize
    THEN Append(Tail(errors), error)
    ELSE Append(errors, error)

\* list(reversed(records))
reversed(records) == [i \in 1..Len(records) |-> records[Len(records) + 1 - i]]

\* records[start:], Python's slice from an index to the end: a negative index
\* counts from the end, an index outside the list is clamped
slice_from(records, start) ==
    LET from == IF start < 0
                THEN (IF Len(records) + start < 0 THEN 0 ELSE Len(records) + start)
                ELSE (IF start > Len(records) THEN Len(records) ELSE start)
    IN  SubSeq(records, from + 1, Len(records))

\* ErrorHistory.get_all
errors_all(errors) == reversed(errors)

\* ErrorHistory.get_recent: list(reversed(list(self._errors)[-limit:]))
get_recent(errors, limit) == reversed(slice_from(errors, 0 - limit))

\* the limits a caller of GET /api/dashboard/errors gives: Query(le=50) has
\* no lower bound
Limits == {0 - 1, 0, 1, 2, ErrorHistoryMaxSize}

\* the task that _handle_exception created runs: error_history.add.  An
\* ErrorRecord is named by the number of records made before it, plus one
error_history_add ==
    /\ LET error == IF error_history = <<>> THEN 1
                    ELSE error_history[Len(error_history)] + 1
       IN  /\ error <= MaxErrors
           /\ error_history' = error_history_append(error_history, error)
    /\ UNCHANGED <<registryVars, historyVars, cancellation_queue, agent_selection_lock,
                   envVars, response, registry_call, reader, errors_read, raw_logs,
                   entries, dispatchVars, backgroundVars>>

\* the dashboard reads all errors (get_summary)
errors_get_all ==
    /\ errors_read' = [accessor |-> "get_all", args |-> <<>>,
                       records |-> errors_all(error_history)]
    /\ errors_read' # errors_read
    /\ UNCHANGED <<registryVars, historyVars, cancellation_queue, agent_selection_lock,
                   envVars, response, registry_call, reader, error_history, raw_logs,
                   entries, dispatchVars, backgroundVars>>

\* GET /api/dashboard/errors?limit=...
get_recent_errors(limit) ==
    /\ errors_read' = [accessor |-> "get_recent", args |-> <<limit>>,
                       records |-> get_recent(error_history, limit)]
    /\ errors_read' # errors_read
    /\ UNCHANGED <<registryVars, historyVars, cancellation_queue, agent_selection_lock,
                   envVars, response, registry_call, reader, error_history, raw_logs,
                   entries, dispatchVars, backgroundVars>>

\* no error has been read
NoErrorsRead == [accessor |-> None, args |-> <<>>, records |-> <<>>]

\* ------------------------------------------------------------- Agent logs
\* A log line is the sequence of the strings that " - " separates in it; the
\* strings a line is made of
Parts == {"2026-01-06 16:20:30,123", "2026-01-06 16:20:30", "yesterday",
          "my_agent", "INFO", " error ", "ERROR: boom", "Some message", "  "}

\* str.strip()
strip(part) ==
    CASE part = " error " -> "error"
      [] part = "  " -> ""
      [] OTHER -> part

\* str.upper()
upper(part) ==
    CASE part = "error" -> "ERROR"
      [] part = " error " -> " ERROR "
      [] part = "yesterday" -> "YESTERDAY"
      [] part = "my_agent" -> "MY_AGENT"
      [] part = "Some message" -> "SOME MESSAGE"
      [] OTHER -> part

\* datetime.strptime with "%Y-%m-%d %H:%M:%S,%f", then without the
\* milliseconds, then isoformat(); None stands for the ValueError of both
strptime_isoformat(part) ==
    CASE part = "2026-01-06 16:20:30,123" -> "2026-01-06T16:20:30.123000"
      [] part = "2026-01-06 16:20:30" -> "2026-01-06T16:20:30"
      [] OTHER -> None

\* datetime.now().isoformat()
now_isoformat == "2026-01-07T09:00:00.000000"

LevelNames == {"DEBUG", "INFO", "WARNING", "ERROR", "CRITICAL"}

\* the first lvl of ("ERROR", "WARNING", "DEBUG", "INFO", "CRITICAL") with
\* part.startswith(lvl), or None
leading_level(part) ==
    CASE part = "ERROR: boom" -> "ERROR"
      [] part = "INFO" -> "INFO"
      [] OTHER -> None

\* part[len(lvl):].lstrip(" -:") for the leading level of part
after_level(part) ==
    CASE part = "ERROR: boom" -> "boom"
      [] part = "INFO" -> ""
      [] OTHER -> part

\* f"agent.{agent_id}"
agent_logger(agent) == IF agent = 1 THEN "agent.1" ELSE "agent.2"

\* line.split(" - ", 3): at most four parts, the fourth is the rest of the
\* line, separators included
split3(line) ==
    IF Len(line) <= 3 THEN [i \in 1..Len(line) |-> <<line[i]>>]
    ELSE <<(<<line[1]>>), (<<line[2]>>), (<<line[3]>>), SubSeq(line, 4, Len(line))>>

\* not line.strip(): nothing but white space in the line
is_blank(line) == Len(line) = 1 /\ strip(line[1]) = ""

\* the LogEntry of one line that is not blank.  A message is the sequence
\* of the strings that " - " separates in it
parse_line(line, task, agent) ==
    LET parts == split3(line)
        raw_timestamp == parts[1][1]
        parsed == strptime_isoformat(strip(raw_timestamp))
        part2 == parts[2][1]
        part3 == parts[3][1]
        timestamp ==
            IF Len(parts) >= 4
            THEN (IF parsed # None THEN parsed ELSE strip(raw_timestamp))
            ELSE IF Len(parts) = 3
            THEN (IF upper(strip(part2)) \in LevelNames
                  THEN (IF parsed # None THEN parsed ELSE strip(raw_timestamp))
                  ELSE parsed)
            ELSE None
        level ==
            IF Len(parts) >= 4 THEN upper(strip(part3))
            ELSE IF Len(parts) = 3
            THEN (IF upper(strip(part2)) \in LevelNames THEN upper(strip(part2))
                  ELSE IF leading_level(part3) # None THEN leading_level(part3)
                  ELSE "INFO")
            ELSE "INFO"
        logger_name ==
            IF Len(parts) >= 4 THEN strip(part2)
            ELSE IF Len(parts) = 3 /\ upper(strip(part2)) \notin LevelNames THEN strip(part2)
            ELSE agent_logger(agent)
        message ==
            IF Len(parts) >= 4 THEN parts[4]
            ELSE IF Len(parts) = 3
            THEN (IF upper(strip(part2)) \in LevelNames THEN <<part3>>
                  ELSE IF leading_level(part3) # None THEN <<after_level(part3)>>
                  ELSE <<part3>>)
            ELSE line
    IN  [timestamp |-> IF timestamp = None THEN now_isoformat ELSE timestamp,
         level |-> level,
         logger_name |-> logger_name,
         message |-> message,
         task_id |-> task,
         agent_id |-> agent]

\* the entries of the lines of one chunk (log_chunk.splitlines())
RECURSIVE parse_lines(_, _, _)
parse_lines(lines, task, agent) ==
    IF lines = <<>> THEN <<>>
    ELSE IF is_blank(Head(lines)) THEN parse_lines(Tail(lines), task, agent)
    ELSE <<parse_line(Head(lines), task, agent)>>
             \o parse_lines(Tail(lines), task, agent)

\* _parse_agent_logs: the entries of all chunks
RECURSIVE parse_agent_logs(_, _, _)
parse_agent_logs(logs, task, agent) ==
    IF logs = <<>> THEN <<>>
    ELSE parse_lines(Head(logs), task, agent)
             \o parse_agent_logs(Tail(logs), task, agent)

\* the lines of n parts
Lines(n) == [1..n -> Parts]

\* the lines that come with a line under test: a blank one and a bare message
OtherLines == {<<"  ">>, <<"Some message">>}

\* the agent logs handed to the parser with a line under test: one chunk of
\* two lines, or two chunks of one line
AgentLogs(line) ==
    {<<(<<line, other>>)>> : other \in OtherLines}
        \cup {<<(<<other>>), (<<line>>)>> : other \in OtherLines}

\* the dashboard parses the agent logs of task 1, run by agent 1
parse_agent_logs_call ==
    /\ entries = <<>>
    /\ entries' = parse_agent_logs(raw_logs, 1, 1)
    /\ UNCHANGED <<registryVars, historyVars, cancellation_queue, agent_selection_lock,
                   envVars, response, registry_call, reader, error_history, errors_read,
                   raw_logs, dispatchVars, backgroundVars>>

\* ------------------------------------------------------------ Registry API
\* the methods of AgentRegistry called one at a time with arbitrary arguments,
\* as a client of the class may call them
ApiIds == {1, 2}
ApiTasks == {NoTask, 1}
Statuses == {"AVAILABLE", "BUSY", "BROKEN"}
BrokenReasons == {"OFFLINE", "TASK_STUCK"}

api_unchanged ==
    UNCHANGED <<next_agent_id, historyVars, cancellation_queue, agent_selection_lock,
                envVars, response, dashboardVars, dispatchVars, backgroundVars>>

\* registry_call keeps, for register, the status the id had before the call
api_register(id, card) ==
    /\ agent_registry' = register(agent_registry, id, card)
    /\ registry_call' = <<"register", id, agent_registry.statuses[id]>>
    /\ api_unchanged

api_update_status(id, status, broken_reason, stuck_task_id) ==
    /\ agent_registry' = update_status(agent_registry, id, status, broken_reason, stuck_task_id)
    /\ registry_call' = <<"update_status">>
    /\ api_unchanged

api_set_current_task(id, task_id) ==
    /\ agent_registry' = set_current_task(agent_registry, id, task_id)
    /\ registry_call' = <<"set_current_task">>
    /\ api_unchanged

api_remove(id) ==
    /\ agent_registry' = remove(agent_registry, id)
    /\ registry_call' = <<"remove">>
    /\ api_unchanged

\* -------------------------------------------------------------- Worker pool
\* _select_execution_agents_for_each_test_label and
\* _select_all_suitable_agent_ids up to the oracle call, for one label
select_all_suitable_start ==
    /\ started
    /\ group_pc = "idle"
    /\ IF is_empty(agent_registry)
       THEN /\ group_pc' = "done"
            /\ UNCHANGED group_available
       ELSE /\ group_pc' = "select"
            /\ group_available' = get_available_agents(agent_registry)
    /\ UNCHANGED <<registryVars, historyVars, cancellation_queue, agent_selection_lock,
                   envVars, callerVars, dispatchVars, discoveryVars, recoveryVars, valid_agent_ids,
                   test_queue, unfinished, worker_pc, results>>

\* the validation in _select_all_suitable_agent_ids of the oracle's answer
select_all_suitable_agent_ids(selected_agent_ids, reg, available) ==
    {a \in selected_agent_ids : contains(reg, a) /\ a \in available}

\* the oracle has answered (an oracle that raises selects nobody);
\* _execute_test_group for test_cases of the label, up to queue.join()
execute_test_group_start(selected_agent_ids, test_cases) ==
    /\ group_pc = "select"
    /\ LET agent_ids == select_all_suitable_agent_ids(selected_agent_ids, agent_registry,
                                                      group_available)
           valid == {a \in agent_ids : contains(agent_registry, a)} IN
       IF valid = {}
       THEN /\ group_pc' = "done"
            /\ UNCHANGED <<valid_agent_ids, test_queue, unfinished, worker_pc>>
       ELSE /\ group_pc' = "running"
            /\ valid_agent_ids' = valid
            /\ test_queue' = [i \in 1..test_cases |-> i]
            /\ unfinished' = test_cases
            /\ worker_pc' = [a \in AgentIds |-> IF a \in valid THEN "check" ELSE None]
    /\ group_available' = {}
    /\ UNCHANGED <<registryVars, historyVars, cancellation_queue, agent_selection_lock,
                   envVars, callerVars, dispatchVars, discoveryVars, recoveryVars, results>>

\* a worker that puts a failed item back and never calls task_done for it
agent_worker_execute_uncounted(a) ==
    /\ test_queue # <<>>
    /\ agent_registry' = update_status(agent_registry, a, "BROKEN", "TASK_STUCK", NoTask)
    /\ LET item == Head(test_queue)
           any_agents_alive ==
               \E other \in valid_agent_ids \ {a} :
                   get_status(agent_registry', other) # "BROKEN" IN
       IF any_agents_alive
       THEN /\ test_queue' = Append(Tail(test_queue), item)
            /\ unfinished' = unfinished + 1
            /\ UNCHANGED results
       ELSE /\ test_queue' = Tail(test_queue)
            /\ results' = Append(results, <<item, "error">>)
            /\ unfinished' = unfinished - 1
    /\ worker_pc' = [worker_pc EXCEPT ![a] = "exit"]
    /\ UNCHANGED <<next_agent_id, historyVars, cancellation_queue, agent_selection_lock,
                   envVars, callerVars, dispatchVars, discoveryVars, recoveryVars, group_pc,
                   group_available, valid_agent_ids>>

\* a worker that puts a failed item back at the head of the queue
agent_worker_execute_head(a) ==
    /\ test_queue # <<>>
    /\ agent_registry' = update_status(agent_registry, a, "BROKEN", "TASK_STUCK", NoTask)
    /\ LET item == Head(test_queue)
           any_agents_alive ==
               \E other \in valid_agent_ids \ {a} :
                   get_status(agent_registry', other) # "BROKEN" IN
       IF any_agents_alive
       THEN /\ test_queue' = <<item>> \o Tail(test_queue)
            /\ UNCHANGED <<unfinished, results>>
       ELSE /\ test_queue' = Tail(test_queue)
            /\ results' = Append(results, <<item, "error">>)
            /\ unfinished' = unfinished - 1
    /\ worker_pc' = [worker_pc EXCEPT ![a] = "exit"]
    /\ UNCHANGED <<next_agent_id, historyVars, cancellation_queue, agent_selection_lock,
                   envVars, callerVars, dispatchVars, discoveryVars, recoveryVars, group_pc,
                   group_available, valid_agent_ids>>

\* a worker that never puts a failed item back
agent_worker_execute_drops(a) ==
    /\ test_queue # <<>>
    /\ agent_registry' = update_status(agent_registry, a, "BROKEN", "TASK_STUCK", NoTask)
    /\ LET item == Head(test_queue)
           any_agents_alive ==
               \E other \in valid_agent_ids \ {a} :
                   get_status(agent_registry', other) # "BROKEN" IN
       IF any_agents_alive
       THEN /\ test_queue' = Tail(test_queue)
            /\ unfinished' = unfinished - 1
            /\ UNCHANGED results
       ELSE /\ test_queue' = Tail(test_queue)
            /\ results' = Append(results, <<item, "error">>)
            /\ unfinished' = unfinished - 1
    /\ worker_pc' = [worker_pc EXCEPT ![a] = "exit"]
    /\ UNCHANGED <<next_agent_id, historyVars, cancellation_queue, agent_selection_lock,
                   envVars, callerVars, dispatchVars, discoveryVars, recoveryVars, group_pc,
                   group_available, valid_agent_ids>>

\* _agent_worker has an item: _execute_single_test calls
\* _send_task_to_agent(agent_id, json, description), which takes two arguments:
\* the TypeError becomes HTTPException(500) and the handler of the worker runs
agent_worker_execute(a) ==
    /\ test_queue # <<>>
    /\ agent_registry' = update_status(agent_registry, a, "BROKEN", "TASK_STUCK", NoTask)
    /\ LET item == Head(test_queue)
           any_agents_alive ==
               \E other \in valid_agent_ids \ {a} :
                   get_status(agent_registry', other) # "BROKEN" IN
       IF any_agents_alive
       THEN /\ test_queue' = Append(Tail(test_queue), item)
            /\ UNCHANGED <<unfinished, results>>
       ELSE /\ test_queue' = Tail(test_queue)
            /\ results' = Append(results, <<item, "error">>)
            /\ unfinished' = unfinished - 1
    /\ worker_pc' = [worker_pc EXCEPT ![a] = "exit"]
    /\ UNCHANGED <<next_agent_id, historyVars, cancellation_queue, agent_selection_lock,
                   envVars, callerVars, dispatchVars, discoveryVars, recoveryVars, group_pc,
                   group_available, valid_agent_ids>>

\* top of the loop of _agent_worker: the status of its agent.  A worker that
\* finds the queue empty waits in queue.get() until it is cancelled: an item
\* is put back only by the worker that took it, in the step that took it
agent_worker_check(a) ==
    /\ worker_pc[a] = "check"
    /\ LET status == get_status(agent_registry, a) IN
       IF status = "AVAILABLE" /\ test_queue # <<>>
       THEN agent_worker_execute(a)
       ELSE /\ worker_pc' = [worker_pc EXCEPT ![a] =
                                 IF status = "BROKEN" THEN "exit"
                                 ELSE IF status = "BUSY" THEN "sleep" ELSE "get"]
            /\ UNCHANGED <<registryVars, historyVars, cancellation_queue,
                           agent_selection_lock, envVars, callerVars, dispatchVars, discoveryVars,
                           recoveryVars, group_pc, group_available, valid_agent_ids,
                           test_queue, unfinished, results>>

\* asyncio.sleep(1) is over
agent_worker_sleep(a) ==
    /\ worker_pc[a] = "sleep"
    /\ worker_pc' = [worker_pc EXCEPT ![a] = "check"]
    /\ UNCHANGED <<registryVars, historyVars, cancellation_queue, agent_selection_lock,
                   envVars, callerVars, dispatchVars, discoveryVars, recoveryVars, group_pc,
                   group_available, valid_agent_ids, test_queue, unfinished, results>>

\* queue.join() returns: the workers are cancelled, the results returned
execute_test_group_join ==
    /\ group_pc = "running"
    /\ unfinished = 0
    /\ group_pc' = "done"
    /\ worker_pc' = [a \in AgentIds |->
                        IF worker_pc[a] \in {None, "exit"} THEN worker_pc[a] ELSE "cancelled"]
    /\ UNCHANGED <<registryVars, historyVars, cancellation_queue, agent_selection_lock,
                   envVars, callerVars, dispatchVars, discoveryVars, recoveryVars, group_available,
                   valid_agent_ids, test_queue, unfinished, results>>

\* execute_tests has its results; the group is gone
execute_tests_return ==
    /\ group_pc = "done"
    /\ group_pc' = "idle"
    /\ valid_agent_ids' = {}
    /\ test_queue' = <<>>
    /\ unfinished' = 0
    /\ worker_pc' = [a \in AgentIds |-> None]
    /\ results' = <<>>
    /\ UNCHANGED <<registryVars, historyVars, cancellation_queue, agent_selection_lock,
                   envVars, callerVars, dispatchVars, discoveryVars, recoveryVars, group_available>>

\* ------------------------------------------------------------ specification
vars == <<agent_registry, next_agent_id, task_history, next_task_id,
          cancellation_queue, agent_selection_lock, serves, env_changes,
          pc, internal_task_id, agent_id, available_agent_ids, last_task, outcome,
          error_records, response, registry_call, reader, error_history,
          errors_read, raw_logs, entries,
          discovery_pc, existing_agent_id, started,
          recovery_pc, recovery_item, recovery_card, recovery_stuck,
          group_pc, group_available, valid_agent_ids, test_queue, unfinished, worker_pc,
          results>>

\* the state after construction, in an environment that serves cards
Init ==
    /\ agent_registry = EmptyRegistry
    /\ next_agent_id = 1
    /\ task_history = EmptyTaskHistory
    /\ next_task_id = 1
    /\ cancellation_queue = <<>>
    /\ agent_selection_lock = None
    /\ serves \in [Urls -> Urls \cup {Down}]
    /\ env_changes = 0
    /\ pc = [d \in Dispatches |-> "idle"]
    /\ internal_task_id = [d \in Dispatches |-> NoTask]
    /\ agent_id = [d \in Dispatches |-> NoAgent]
    /\ available_agent_ids = [d \in Dispatches |-> {}]
    /\ last_task = [d \in Dispatches |-> NoTask]
    /\ outcome = [d \in Dispatches |-> None]
    /\ error_records = [d \in Dispatches |-> 0]
    /\ response = [d \in Dispatches |-> None]
    /\ registry_call = <<>>
    /\ reader = NoRead
    /\ error_history = <<>>
    /\ errors_read = NoErrorsRead
    /\ raw_logs = <<>>
    /\ entries = <<>>
    /\ discovery_pc = [u \in Urls |-> "idle"]
    /\ existing_agent_id = [u \in Urls |-> NoAgent]
    /\ started = FALSE
    /\ recovery_pc = "get"
    /\ recovery_item = <<NoAgent, 0>>
    /\ recovery_card = None
    /\ recovery_stuck = NoTask
    /\ group_pc = "idle"
    /\ group_available = {}
    /\ valid_agent_ids = {}
    /\ test_queue = <<>>
    /\ unfinished = 0
    /\ worker_pc = [a \in AgentIds |-> None]
    /\ results = <<>>

\* one call of _send_task_to_agent_with_message
dispatch(d) ==
    \/ send_task_start(d)
    \/ wait_and_reserve_acquire(d)
    \/ \E answer \in OracleIds : wait_and_reserve_select(d, answer)
    \/ \E deadline \in BOOLEAN : wait_and_reserve_wake(d, deadline)
    \/ \E state \in Returned : stream_terminal(d, state)
    \/ \E is_task \in BOOLEAN, deadline \in BOOLEAN : stream_progress(d, is_task, deadline)
    \/ stream_end(d)
    \/ stream_jsonrpc_error(d)
    \/ stream_timeout(d)
    \/ stream_exception(d)
    \/ send_task_return(d)

\* _discover_agents, at startup and periodically
discovery ==
    \/ discover_agents_start
    \/ \E u \in Urls : process_url_discovery_existing(u)
    \/ \E u \in Urls : process_url_discovery_new(u)
    \/ discover_agents_end

\* _retry_cancellation_task
recovery ==
    \/ retry_cancellation_get
    \/ \E cancel_success \in BOOLEAN : retry_cancellation_cancelled(cancel_success)
    \/ retry_cancellation_probed
    \/ retry_cancellation_requeue

\* execute_tests for one label
pool ==
    \/ select_all_suitable_start
    \/ \E ids \in SUBSET OracleIds, test_cases \in Items : execute_test_group_start(ids, test_cases)
    \/ \E a \in AgentIds : agent_worker_check(a)
    \/ \E a \in AgentIds : agent_worker_sleep(a)
    \/ execute_test_group_join
    \/ execute_tests_return

\* agents come and go
environment ==
    \E u \in Urls, card \in Urls \cup {Down} : env_change(u, card)

\* one request at a time and the background loops
Next ==
    \/ dispatch("d1")
    \/ discovery
    \/ recovery

Spec == Init /\ [][Next]_vars

\* two concurrent requests for one agent, which answers at the url of its
\* card or only at the url where it was discovered
InitOneCard ==
    /\ Init
    /\ serves["u1"] # Down
    /\ serves["u2"] = Down

NextConcurrent ==
    \/ \E d \in Dispatches : dispatch(d)
    \/ discovery
    \/ recovery

SpecConcurrent == InitOneCard /\ [][NextConcurrent]_vars

\* a request and a test group after a startup discovery that has found two
\* agents, before the next periodic discovery
InitTwoAgents ==
    /\ agent_registry = register(register(EmptyRegistry, 1, "u1"), 2, "u2")
    /\ next_agent_id = 3
    /\ task_history = EmptyTaskHistory
    /\ next_task_id = 1
    /\ cancellation_queue = <<>>
    /\ agent_selection_lock = None
    /\ serves = [u \in Urls |-> u]
    /\ env_changes = 0
    /\ pc = [d \in Dispatches |-> "idle"]
    /\ internal_task_id = [d \in Dispatches |-> NoTask]
    /\ agent_id = [d \in Dispatches |-> NoAgent]
    /\ available_agent_ids = [d \in Dispatches |-> {}]
    /\ last_task = [d \in Dispatches |-> NoTask]
    /\ outcome = [d \in Dispatches |-> None]
    /\ error_records = [d \in Dispatches |-> 0]
    /\ response = [d \in Dispatches |-> None]
    /\ registry_call = <<>>
    /\ reader = NoRead
    /\ error_history = <<>>
    /\ errors_read = NoErrorsRead
    /\ raw_logs = <<>>
    /\ entries = <<>>
    /\ discovery_pc = [u \in Urls |-> "idle"]
    /\ existing_agent_id = [u \in Urls |-> NoAgent]
    /\ started = TRUE
    /\ recovery_pc = "get"
    /\ recovery_item = <<NoAgent, 0>>
    /\ recovery_card = None
    /\ recovery_stuck = NoTask
    /\ group_pc = "idle"
    /\ group_available = {}
    /\ valid_agent_ids = {}
    /\ test_queue = <<>>
    /\ unfinished = 0
    /\ worker_pc = [a \in AgentIds |-> None]
    /\ results = <<>>

NextPool ==
    \/ dispatch("d1")
    \/ pool

SpecPool == InitTwoAgents /\ [][NextPool]_vars

\* the records of TaskHistoryMaxSize dispatches that have completed; a record
\* that started earlier has the smaller id
OldIds == (0 - TaskHistoryMaxSize)..(0 - 1)

FullTaskHistory ==
    [tasks |-> [i \in 1..TaskHistoryMaxSize |-> i - TaskHistoryMaxSize - 1],
     by_id |-> [t \in OldIds \cup TaskIds |-> IF t \in OldIds THEN "COMPLETED" ELSE None]]

\* two concurrent requests for two agents after TaskHistoryMaxSize dispatches
\* have completed
InitFullHistory ==
    /\ agent_registry = register(register(EmptyRegistry, 1, "u1"), 2, "u2")
    /\ next_agent_id = 3
    /\ task_history = FullTaskHistory
    /\ next_task_id = 1
    /\ cancellation_queue = <<>>
    /\ agent_selection_lock = None
    /\ serves = [u \in Urls |-> u]
    /\ env_changes = 0
    /\ pc = [d \in Dispatches |-> "idle"]
    /\ internal_task_id = [d \in Dispatches |-> NoTask]
    /\ agent_id = [d \in Dispatches |-> NoAgent]
    /\ available_agent_ids = [d \in Dispatches |-> {}]
    /\ last_task = [d \in Dispatches |-> NoTask]
    /\ outcome = [d \in Dispatches |-> None]
    /\ error_records = [d \in Dispatches |-> 0]
    /\ response = [d \in Dispatches |-> None]
    /\ registry_call = <<>>
    /\ reader = NoRead
    /\ error_history = <<>>
    /\ errors_read = NoErrorsRead
    /\ raw_logs = <<>>
    /\ entries = <<>>
    /\ discovery_pc = [u \in Urls |-> "idle"]
    /\ existing_agent_id = [u \in Urls |-> NoAgent]
    /\ started = TRUE
    /\ recovery_pc = "get"
    /\ recovery_item = <<NoAgent, 0>>
    /\ recovery_card = None
    /\ recovery_stuck = NoTask
    /\ group_pc = "idle"
    /\ group_available = {}
    /\ valid_agent_ids = {}
    /\ test_queue = <<>>
    /\ unfinished = 0
    /\ worker_pc = [a \in AgentIds |-> None]
    /\ results = <<>>

NextDispatches == \E d \in Dispatches : dispatch(d)

SpecFullHistory == InitFullHistory /\ [][NextDispatches]_vars

\* a client of AgentRegistry
InitRegistry ==
    /\ Init
    /\ serves = [u \in Urls |-> Down]

NextRegistry ==
    \/ \E id \in ApiIds, card \in Urls : api_register(id, card)
    \/ \E id \in ApiIds, status \in Statuses, broken_reason \in BrokenReasons \cup {None},
          stuck_task_id \in ApiTasks :
           api_update_status(id, status, broken_reason, stuck_task_id)
    \/ \E id \in ApiIds, task_id \in ApiTasks : api_set_current_task(id, task_id)
    \/ \E id \in ApiIds : api_remove(id)

SpecRegistry == InitRegistry /\ [][NextRegistry]_vars

\* the scheduling of the event loop: a coroutine that can run does run, a
\* stream that stays open meets its deadline, and a worker that polls the
\* status of an agent that is free again and again sees it free
FairPool ==
    /\ WF_vars(stream_timeout("d1"))
    /\ WF_vars(send_task_return("d1"))
    /\ WF_vars(pool)
    /\ \A a \in AgentIds :
           /\ WF_vars(agent_worker_sleep(a))
           /\ SF_vars(agent_worker_check(a) /\ worker_pc'[a] # "sleep")

SpecPoolFair == SpecPool /\ FairPool

\* a request and the background loops while agents come and go and time passes
NextEnvironment ==
    \/ dispatch("d1")
    \/ wait_and_reserve_oracle_raises("d1")
    \/ discovery
    \/ recovery
    \/ environment
    \/ tick

\* a request and the recovery loop between two discovery passes, with two
\* registered agents that go down and come up, over more than a day
NextAging ==
    \/ dispatch("d1")
    \/ recovery
    \/ environment
    \/ tick

SpecAging == InitTwoAgents /\ [][NextAging]_vars

\* a request after another while the dashboard reads the task history,
\* between two discovery passes
NextDashboard ==
    \/ dispatch("d1")
    \/ tasks_get_all
    \/ \E task_id \in TaskIds : tasks_get_by_id(task_id)

SpecDashboard == InitTwoAgents /\ [][NextDashboard]_vars

\* errors are recorded while the dashboard reads them
NextErrorHistory ==
    \/ error_history_add
    \/ errors_get_all
    \/ \E limit \in Limits : get_recent_errors(limit)

SpecErrorHistory == InitTwoAgents /\ [][NextErrorHistory]_vars

\* agent logs with a line of every shape, of at most MaxParts parts, are
\* handed to the parser
InitAgentLogs ==
    /\ agent_registry = register(register(EmptyRegistry, 1, "u1"), 2, "u2")
    /\ next_agent_id = 3
    /\ task_history = EmptyTaskHistory
    /\ next_task_id = 1
    /\ cancellation_queue = <<>>
    /\ agent_selection_lock = None
    /\ serves = [u \in Urls |-> u]
    /\ env_changes = 0
    /\ pc = [d \in Dispatches |-> "idle"]
    /\ internal_task_id = [d \in Dispatches |-> NoTask]
    /\ agent_id = [d \in Dispatches |-> NoAgent]
    /\ available_agent_ids = [d \in Dispatches |-> {}]
    /\ last_task = [d \in Dispatches |-> NoTask]
    /\ outcome = [d \in Dispatches |-> None]
    /\ error_records = [d \in Dispatches |-> 0]
    /\ response = [d \in Dispatches |-> None]
    /\ registry_call = <<>>
    /\ reader = NoRead
    /\ error_history = <<>>
    /\ errors_read = NoErrorsRead
    /\ \E n \in 1..MaxParts : \E line \in Lines(n) : raw_logs \in AgentLogs(line)
    /\ entries = <<>>
    /\ discovery_pc = [u \in Urls |-> "idle"]
    /\ existing_agent_id = [u \in Urls |-> NoAgent]
    /\ started = TRUE
    /\ recovery_pc = "get"
    /\ recovery_item = <<NoAgent, 0>>
    /\ recovery_card = None
    /\ recovery_stuck = NoTask
    /\ group_pc = "idle"
    /\ group_available = {}
    /\ valid_agent_ids = {}
    /\ test_queue = <<>>
    /\ unfinished = 0
    /\ worker_pc = [a \in AgentIds |-> None]
    /\ results = <<>>

SpecAgentLogs == InitAgentLogs /\ [][parse_agent_logs_call]_vars

\* requests and a test group run while discovery and the recovery loop run,
\* for one agent that stays up; every loop that can take a step takes one in
\* the end
NextCovered ==
    \/ dispatch("d1")
    \/ pool
    \/ discovery
    \/ recovery

FairCovered ==
    /\ WF_vars(dispatch("d1"))
    /\ WF_vars(pool)
    /\ WF_vars(discovery)
    /\ WF_vars(recovery)

SpecCovered == InitOneCard /\ [][NextCovered]_vars /\ FairCovered

InitOneAgent ==
    /\ Init
    /\ serves = [u \in Urls |-> IF u = "u1" THEN "u1" ELSE Down]

SpecEnvironment == InitOneAgent /\ [][NextEnvironment]_vars

\* a request to an endpoint, whose oracle call may fail, and the background
\* loops, for one agent
NextRequest ==
    \/ Next
    \/ wait_and_reserve_oracle_raises("d1")
    \/ \E endpoint \in Endpoints, artifacts \in BOOLEAN :
           endpoint_respond("d1", endpoint, artifacts)

SpecRequest == InitOneCard /\ [][NextRequest]_vars

\* ------------------------------------------------------------------ claims
\* a dispatch is in flight on agent a: it has reserved a and not yet released it
in_flight(d, a) == pc[d] = "stream" /\ agent_id[d] = a

\* C1: at any moment at most one dispatch is in flight for a given agent,
\* whatever dispatches, discovery and the recovery loop do concurrently
C1_OneDispatchPerAgent ==
    \A a \in AgentIds : \A d, e \in Dispatches :
        in_flight(d, a) /\ in_flight(e, a) => d = e

\* C2: an agent whose status is AVAILABLE has no current task, no broken
\* reason and no stuck task id
C2_AvailableIsClean ==
    \A a \in AgentIds :
        agent_registry.statuses[a] = "AVAILABLE" =>
            /\ agent_registry.current_tasks[a] = NoTask
            /\ agent_registry.broken_reasons[a] = None
            /\ agent_registry.stuck_task_ids[a] = NoTask

\* an agent is AVAILABLE again after the dispatch that timed out on it, with
\* a stuck task id, has not even returned to its caller
C2_Witness ==
    /\ pc["d1"] = "done"
    /\ outcome["d1"] = "TimedOut"
    /\ last_task["d1"] # NoTask
    /\ agent_registry.statuses[agent_id["d1"]] = "AVAILABLE"

\* C3: an agent whose status is BUSY has a current task, and that task is a
\* TaskRecord of the history whose status is RUNNING
C3_BusyHasRunningTask ==
    \A a \in AgentIds :
        agent_registry.statuses[a] = "BUSY" =>
            /\ agent_registry.current_tasks[a] # NoTask
            /\ task_history.by_id[agent_registry.current_tasks[a]] = "RUNNING"

\* an agent is BUSY with its second task after its first one has failed
C3_Witness ==
    \E a \in AgentIds :
        /\ agent_registry.statuses[a] = "BUSY"
        /\ agent_registry.current_tasks[a] = 2
        /\ task_history.by_id[1] = "FAILED"

\* C4: a dispatch reserves an agent that is AVAILABLE and makes it BUSY, and
\* when it returns or raises after the reservation that agent is not BUSY:
\* it is AVAILABLE or BROKEN, or no longer registered
C4_ReserveThenRelease ==
    [][\A d \in Dispatches :
          /\ (pc[d] # "stream" /\ pc'[d] = "stream") =>
                 /\ agent_registry.statuses[agent_id'[d]] = "AVAILABLE"
                 /\ agent_registry'.statuses[agent_id'[d]] = "BUSY"
          /\ (pc[d] = "stream" /\ pc'[d] # "stream") =>
                 /\ pc'[d] = "done"
                 /\ agent_registry'.statuses[agent_id[d]] \in {"AVAILABLE", "BROKEN", None}]_vars

\* a dispatch has returned a completed task and its agent is AVAILABLE
C4_Witness ==
    /\ pc["d1"] = "done"
    /\ outcome["d1"] = "completed"
    /\ agent_registry.statuses[agent_id["d1"]] = "AVAILABLE"

\* C5: an agent becomes BROKEN only in the step of a dispatch in flight on it
\* that ends with the timeout or with a transport exception
C5_BrokenOnlyByTimeoutOrTransport ==
    [][\A a \in AgentIds :
          (agent_registry.statuses[a] # "BROKEN" /\ agent_registry'.statuses[a] = "BROKEN") =>
              \E d \in Dispatches :
                  /\ in_flight(d, a)
                  /\ pc'[d] = "done"
                  /\ outcome'[d] \in {"TimedOut", "AgentCrashed"}]_vars

\* the step of dispatch d that ends with result
ends_with(d, result) == pc[d] = "stream" /\ pc'[d] = "done" /\ outcome'[d] = result

\* C6: a dispatch that hits the per-event or the overall deadline leaves its
\* TaskRecord FAILED and its agent BROKEN(TASK_STUCK) with the last task id
\* seen on the stream as stuck task id, puts one tuple for the agent on the
\* recovery channel and raises the timeout error
C6_TimeoutMarksStuck ==
    [][\A d \in Dispatches :
          ends_with(d, "TimedOut") =>
              /\ task_history'.by_id[internal_task_id[d]] = "FAILED"
              /\ agent_registry'.statuses[agent_id[d]] = "BROKEN"
              /\ agent_registry'.broken_reasons[agent_id[d]] = "TASK_STUCK"
              /\ agent_registry'.stuck_task_ids[agent_id[d]] = last_task'[d]
              /\ cancellation_queue' = Append(cancellation_queue, <<agent_id[d], 0>>)]_vars

\* C7 as stated: a dispatch that ends with a transport exception leaves its
\* agent BROKEN(OFFLINE) and its TaskRecord FAILED and puts one tuple for the
\* agent on the recovery channel
C7_ExceptionMarksOffline ==
    [][\A d \in Dispatches :
          ends_with(d, "AgentCrashed") =>
              /\ task_history'.by_id[internal_task_id[d]] = "FAILED"
              /\ agent_registry'.statuses[agent_id[d]] = "BROKEN"
              /\ agent_registry'.broken_reasons[agent_id[d]] = "OFFLINE"
              /\ cancellation_queue' = Append(cancellation_queue, <<agent_id[d], 0>>)]_vars

\* C7, amended: a dispatch that ends with a transport exception leaves its
\* TaskRecord FAILED and puts one tuple for the agent on the recovery channel;
\* the agent becomes BROKEN(OFFLINE) if it is still registered, and the
\* registry is left as it is if discovery has removed the agent meanwhile
C7_ExceptionMarksOfflineIfRegistered ==
    [][\A d \in Dispatches :
          ends_with(d, "AgentCrashed") =>
              /\ task_history'.by_id[internal_task_id[d]] = "FAILED"
              /\ cancellation_queue' = Append(cancellation_queue, <<agent_id[d], 0>>)
              /\ IF contains(agent_registry, agent_id[d])
                 THEN /\ agent_registry'.statuses[agent_id[d]] = "BROKEN"
                      /\ agent_registry'.broken_reasons[agent_id[d]] = "OFFLINE"
                      /\ agent_registry'.current_tasks[agent_id[d]] = NoTask
                 ELSE agent_registry' = agent_registry]_vars

\* a dispatch has raised the transport exception, its agent is BROKEN(OFFLINE)
\* and the tuple for it is the last of the recovery channel
C7_Witness ==
    /\ pc["d1"] = "done"
    /\ outcome["d1"] = "AgentCrashed"
    /\ agent_id["d1"] \in AgentIds
    /\ agent_registry.statuses[agent_id["d1"]] = "BROKEN"
    /\ agent_registry.broken_reasons[agent_id["d1"]] = "OFFLINE"
    /\ task_history.by_id[internal_task_id["d1"]] = "FAILED"
    /\ cancellation_queue # <<>>
    /\ cancellation_queue[Len(cancellation_queue)] = <<agent_id["d1"], 0>>

\* C8: no two entries of the registry have cards with the same url
C8_UniqueUrls ==
    \A a, b \in AgentIds :
        (contains(agent_registry, a) /\ contains(agent_registry, b)
            /\ agent_registry.cards[a] = agent_registry.cards[b]) => a = b

\* both urls serve a card that advertises the same url, both discovery tasks
\* of the run have fetched it, and the registry has one entry
C8_Witness ==
    /\ serves["u1"] = serves["u2"]
    /\ serves["u1"] # Down
    /\ \A u \in Urls : discovery_pc[u] = "done"
    /\ Cardinality(get_all_cards(agent_registry)) = 1

\* every registered agent answers at the url of its card
all_reachable ==
    \A a \in AgentIds :
        contains(agent_registry, a) => serves[agent_registry.cards[a]] # Down

\* a step of the discovery run
discovery_step == discovery_pc' # discovery_pc

\* C9: a step of a discovery run after the first one, with every registered
\* agent reachable before and after it, leaves the entries of the registry and
\* their ids as they are and changes no status, except BROKEN to AVAILABLE
C9_DiscoveryIdempotent ==
    [][(started /\ discovery_step /\ all_reachable /\ all_reachable') =>
          /\ agent_registry'.cards = agent_registry.cards
          /\ next_agent_id' = next_agent_id
          /\ \A a \in AgentIds :
                 \/ agent_registry'.statuses[a] = agent_registry.statuses[a]
                 \/ /\ agent_registry.statuses[a] = "BROKEN"
                    /\ agent_registry'.statuses[a] = "AVAILABLE"]_vars

\* a later discovery run has processed every url, and the two agents it found
\* registered and reachable are still there
C9_Witness ==
    /\ started
    /\ \A u \in Urls : discovery_pc[u] = "done"
    /\ all_reachable
    /\ get_all_cards(agent_registry) = {1, 2}

\* C10: the snapshot handed to the oracle holds only AVAILABLE agents; the
\* agent a dispatch reserves and the agents of a pool are ids of that
\* snapshot, and an answer that is not in the snapshot selects nobody
C10_RouterReturnsSnapshotIds ==
    [][/\ \A d \in Dispatches :
             /\ (pc[d] # "oracle" /\ pc'[d] = "oracle") =>
                    /\ available_agent_ids'[d] # {}
                    /\ \A a \in get_agents_info(agent_registry, available_agent_ids'[d]) :
                           agent_registry.statuses[a] = "AVAILABLE"
             /\ (pc[d] = "oracle" /\ pc'[d] = "stream") =>
                    agent_id'[d] \in available_agent_ids[d]
             /\ pc[d] = "oracle" =>
                    \A answer \in OracleIds :
                        select_agent(answer, available_agent_ids[d]) =
                            IF answer \in available_agent_ids[d] THEN answer ELSE NoAgent
       /\ (group_pc = "idle" /\ group_pc' = "select") =>
              \A a \in get_agents_info(agent_registry, group_available') :
                  agent_registry.statuses[a] = "AVAILABLE"
       /\ (group_pc = "select" /\ group_pc' = "running") =>
              valid_agent_ids' \subseteq group_available
       /\ group_pc = "select" =>
              \A ids \in SUBSET OracleIds :
                  select_all_suitable_agent_ids(ids, agent_registry, group_available)
                      \subseteq (ids \cap group_available)]_vars

\* a dispatch has reserved an agent of its snapshot while a pool of agents
\* of the group's snapshot is running
C10_Witness ==
    /\ pc["d1"] = "stream"
    /\ group_pc = "running"
    /\ valid_agent_ids # {}

\* the step in which _wait_and_reserve_agent of dispatch d returns or raises
wait_end(d) ==
    /\ pc[d] \in {"idle", "acquire", "oracle", "sleep"}
    /\ pc'[d] \in {"done", "stream"}

\* the AVAILABLE snapshot of the current round of dispatch d
snapshot(d) ==
    IF pc[d] = "oracle" THEN available_agent_ids[d]
    ELSE get_available_agents(agent_registry)

\* the step reserves nothing for dispatch d
no_reservation(d) ==
    /\ agent_registry' = agent_registry
    /\ task_history' = task_history
    /\ agent_id'[d] = NoAgent

\* the step reserves one registered AVAILABLE agent for dispatch d
reservation(d) ==
    /\ pc'[d] = "stream"
    /\ agent_id'[d] \in AgentIds
    /\ agent_registry.cards[agent_id'[d]] # None
    /\ agent_registry.statuses[agent_id'[d]] = "AVAILABLE"
    /\ agent_registry'.statuses[agent_id'[d]] = "BUSY"
    /\ \A a \in AgentIds \ {agent_id'[d]} :
           agent_registry'.statuses[a] = agent_registry.statuses[a]

\* every registered agent is BROKEN
all_broken ==
    \A a \in AgentIds : contains(agent_registry, a) => agent_registry.statuses[a] = "BROKEN"

\* C11 as stated: _wait_and_reserve_agent ends in one of four ways: 404 with
\* an empty registry, 404 with AVAILABLE agents and no id from the router,
\* 503 with every agent BROKEN, none of them reserving an agent, or a
\* reservation
C11_FourWays ==
    [][\A d \in Dispatches :
          wait_end(d) =>
              \/ /\ pc'[d] = "done" /\ outcome'[d] = "NoAgents"
                 /\ is_empty(agent_registry) /\ no_reservation(d)
              \/ /\ pc'[d] = "done" /\ outcome'[d] = "NoneSuitable"
                 /\ snapshot(d) # {} /\ no_reservation(d)
              \/ /\ pc'[d] = "done" /\ outcome'[d] = "ReservationTimeout"
                 /\ all_broken /\ no_reservation(d)
              \/ reservation(d)]_vars

\* C11, amended: the 503 is raised when the deadline has passed after a round
\* that reserved nothing, whatever the agents are by then; a round reserves
\* nothing when its snapshot of AVAILABLE agents is empty or an agent of the
\* snapshot is no longer AVAILABLE at the re-check; and a fifth way to end is
\* the exception of a failed oracle call, which reserves no agent either
C11_FiveWays ==
    [][\A d \in Dispatches :
          /\ wait_end(d) =>
                 \/ /\ pc'[d] = "done" /\ outcome'[d] = "NoAgents"
                    /\ is_empty(agent_registry) /\ no_reservation(d)
                 \/ /\ pc'[d] = "done" /\ outcome'[d] = "NoneSuitable"
                    /\ snapshot(d) # {} /\ no_reservation(d)
                 \/ /\ pc'[d] = "done" /\ outcome'[d] = "ReservationTimeout"
                    /\ pc[d] = "sleep" /\ no_reservation(d)
                 \/ /\ pc'[d] = "done" /\ outcome'[d] = "AgentCrashed"
                    /\ pc[d] = "oracle" /\ no_reservation(d)
                 \/ reservation(d)
          /\ (pc[d] # "sleep" /\ pc'[d] = "sleep") =>
                 /\ no_reservation(d)
                 /\ \/ pc[d] = "acquire" /\ snapshot(d) = {}
                    \/ /\ pc[d] = "oracle"
                       /\ \E a \in snapshot(d) :
                              get_status(agent_registry, a) # "AVAILABLE"]_vars

\* the 503 has been raised for a registry whose agents are all BROKEN
C11_Witness ==
    /\ pc["d1"] = "done"
    /\ outcome["d1"] = "ReservationTimeout"
    /\ ~is_empty(agent_registry)
    /\ all_broken

\* C12: a test group that has started its workers terminates: the queue
\* drains, queue.join() returns and the results are returned
C12_GroupTerminates == (group_pc = "running") ~> (group_pc = "done")

\* how often item i is in the queue of the group or in its results
accounted(queue, res) ==
    [i \in Items |-> Cardinality({k \in DOMAIN queue : queue[k] = i})
                     + Cardinality({k \in DOMAIN res : res[k][1] = i})]

start_time(task_id) == task_id

\* C14: the ring buffer of the task history never holds more than
\* TaskHistoryMaxSize records, and an add to a full buffer evicts exactly the
\* record with the oldest start_time and keeps all others
C14_BoundedOldestEvicted ==
    /\ [](Len(task_history.tasks) <= TaskHistoryMaxSize)
    /\ [][task_history'.tasks # task_history.tasks =>
              LET old == task_history.tasks
                  new == task_history'.tasks IN
              IF Len(old) = TaskHistoryMaxSize
              THEN /\ \A k \in DOMAIN old : start_time(Head(old)) <= start_time(old[k])
                   /\ new = Append(Tail(old), new[Len(new)])
                   /\ \A k \in DOMAIN old : new[Len(new)] # old[k]
              ELSE new = Append(old, new[Len(new)])]_vars

\* two records have been added to the full history: the two oldest records
\* are gone and the new records are the newest
C14_Witness ==
    /\ Len(task_history.tasks) = TaskHistoryMaxSize
    /\ Head(task_history.tasks) = 2 - TaskHistoryMaxSize
    /\ task_history.tasks[TaskHistoryMaxSize] = 2
    /\ task_history.tasks[TaskHistoryMaxSize - 1] = 1

\* C15: register(id, c) replaces the card of id and nothing else of a known
\* id, whatever its status, broken context and current task are; it adds an
\* unknown id as AVAILABLE; and register(id, c) after register(id, c2) leaves
\* the registry as register(id, c) alone does
C15_RegisterKeepsStatus ==
    [][\A id \in ApiIds, card \in Urls :
          api_register(id, card) =>
              /\ agent_registry'.cards = [agent_registry.cards EXCEPT ![id] = card]
              /\ agent_registry'.statuses =
                     IF agent_registry.statuses[id] # None
                     THEN agent_registry.statuses
                     ELSE [agent_registry.statuses EXCEPT ![id] = "AVAILABLE"]
              /\ agent_registry'.broken_reasons = agent_registry.broken_reasons
              /\ agent_registry'.stuck_task_ids = agent_registry.stuck_task_ids
              /\ agent_registry'.current_tasks = agent_registry.current_tasks
              /\ \A c2 \in Urls :
                     register(register(agent_registry, id, c2), id, card)
                         = register(agent_registry, id, card)]_vars

\* register has replaced the card of an agent that was and is
\* BROKEN(TASK_STUCK) with a stuck task and a current task
C15_Witness ==
    /\ registry_call = <<"register", 1, "BROKEN">>
    /\ agent_registry.cards[1] = "u2"
    /\ agent_registry.statuses[1] = "BROKEN"
    /\ agent_registry.broken_reasons[1] = "TASK_STUCK"
    /\ agent_registry.stuck_task_ids[1] = 1
    /\ agent_registry.current_tasks[1] = 1

C17_EmptyRegistryAnswers404 ==
    [][\A d \in Dispatches :
          (pc[d] = "done" /\ outcome[d] = "NoAgents" /\ pc'[d] = "responded") =>
              response'[d][2] = 404]_vars

\* C18: a dispatch that raises an error to its caller, and an endpoint that
\* answers with an error, have added exactly one ErrorRecord for the request
C18_OneErrorRecordPerError ==
    [][\A d \in Dispatches :
          /\ (pc[d] # "done" /\ pc'[d] = "done" /\ outcome'[d] \in Raised) =>
                 error_records'[d] = 1
          /\ (pc[d] = "done" /\ pc'[d] = "responded" /\ response'[d][2] # 200) =>
                 error_records'[d] = 1]_vars

\* C19: the re-check of the status of the chosen agent and the write of BUSY
\* are one step: the agent a dispatch leaves its oracle call with was
\* registered and AVAILABLE when it was set BUSY, whatever has happened to the
\* snapshot during the oracle call, and a snapshot none of whose agents is
\* still registered and AVAILABLE reserves nothing
stale(d) ==
    {a \in available_agent_ids[d] :
        ~(contains(agent_registry, a) /\ get_status(agent_registry, a) = "AVAILABLE")}

C19_ReservedWasAvailable ==
    [][\A d \in Dispatches :
          pc[d] = "oracle" =>
              /\ pc'[d] = "stream" =>
                     /\ agent_id'[d] \in available_agent_ids[d] \ stale(d)
                     /\ get_status(agent_registry', agent_id'[d]) = "BUSY"
                     /\ agent_registry'.current_tasks[agent_id'[d]] = internal_task_id'[d]
              /\ stale(d) = available_agent_ids[d] =>
                     /\ pc'[d] \in {"oracle", "sleep", "done"}
                     /\ agent_id'[d] = agent_id[d]
                     /\ (pc'[d] # "oracle" => agent_registry' = agent_registry)]_vars

\* a dispatch holds its reservation while a pool worker has marked another
\* agent of the registry BROKEN
C19_Witness ==
    /\ pc["d1"] = "stream"
    /\ get_status(agent_registry, agent_id["d1"]) = "BUSY"
    /\ agent_registry.current_tasks[agent_id["d1"]] = internal_task_id["d1"]
    /\ \E a \in AgentIds \ {agent_id["d1"]} :
           worker_pc[a] = "exit" /\ get_status(agent_registry, a) = "BROKEN"

\* C20: whatever the oracle answers, the result of _select_agent and of
\* _select_all_suitable_agent_ids holds only agents that are AVAILABLE when
\* the answer is validated
C20_DropsNoLongerAvailable ==
    /\ \A d \in Dispatches :
           pc[d] = "oracle" =>
               \A answer \in AgentIds \cup {NoAgent} :
                   LET selected == select_agent(answer, available_agent_ids[d]) IN
                       selected # NoAgent =>
                           get_status(agent_registry, selected) = "AVAILABLE"
    /\ group_pc = "select" =>
           \A selected_agent_ids \in SUBSET AgentIds :
               \A a \in select_all_suitable_agent_ids(selected_agent_ids, agent_registry,
                                                      group_available) :
                   get_status(agent_registry, a) = "AVAILABLE"

\* C21: a dispatch that is suspended in the oracle call, in the agent's
\* stream or in the back-off sleep does not hold the selection lock
C21_NoLockAcrossSuspension ==
    \A d \in Dispatches :
        pc[d] \in {"oracle", "stream", "sleep"} => agent_selection_lock # d

\* C22: the step of a discovery pass for a registered url removes the entry
\* if the probe fails, makes the agent AVAILABLE if the probe succeeds and the
\* agent is BROKEN(OFFLINE), and otherwise changes nothing in the registry;
\* the entries of the other agents are never changed
entry(reg, a) ==
    <<reg.cards[a], reg.statuses[a], reg.broken_reasons[a], reg.stuck_task_ids[a],
      reg.current_tasks[a]>>

C22_DiscoveryFrame ==
    [][\A url \in Urls :
          (discovery_pc[url] = "probe" /\ discovery_pc'[url] = "done") =>
              LET id == existing_agent_id[url] IN
                  /\ \A a \in AgentIds \ {id} :
                         entry(agent_registry', a) = entry(agent_registry, a)
                  /\ IF serves[url] = Down
                     THEN entry(agent_registry', id) = <<None, None, None, NoTask, NoTask>>
                     ELSE IF /\ agent_registry.statuses[id] = "BROKEN"
                             /\ agent_registry.broken_reasons[id] = "OFFLINE"
                     THEN /\ agent_registry'.statuses[id] = "AVAILABLE"
                          /\ agent_registry'.cards[id] = agent_registry.cards[id]
                     ELSE entry(agent_registry', id) = entry(agent_registry, id)]_vars

\* a periodic discovery pass has probed the url of a reachable agent that is
\* BROKEN(TASK_STUCK) and has left it so
C22_Witness ==
    /\ started
    /\ \E url \in Urls :
           /\ discovery_pc[url] = "done"
           /\ serves[url] # Down
           /\ \E a \in AgentIds :
                  /\ agent_registry.cards[a] = url
                  /\ agent_registry.statuses[a] = "BROKEN"
                  /\ agent_registry.broken_reasons[a] = "TASK_STUCK"

\* the head of the recovery channel names a registered agent that is
\* BROKEN(TASK_STUCK) with a stuck task id, and the tuple is not too old
stuck_tuple ==
    /\ recovery_pc = "get"
    /\ cancellation_queue # <<>>
    /\ Head(cancellation_queue)[2] <= GiveUpSeconds
    /\ LET a == Head(cancellation_queue)[1] IN
           /\ contains(agent_registry, a)
           /\ agent_registry.statuses[a] = "BROKEN"
           /\ agent_registry.broken_reasons[a] = "TASK_STUCK"
           /\ agent_registry.stuck_task_ids[a] # NoTask

\* the recovery loop takes a stuck tuple: it issues a cancel for the stuck task
cancel_issued ==
    (stuck_tuple /\ recovery_pc' # "get") =>
        /\ recovery_pc' = "cancel"
        /\ recovery_stuck' = agent_registry.stuck_task_ids[Head(cancellation_queue)[1]]

\* the attempt for a stuck task ends with the agent recovered
stuck_recovered ==
    \/ recovery_pc = "cancel" /\ recovery_pc' = "get"
    \/ recovery_pc = "probe" /\ recovery_stuck # NoTask /\ recovery_pc' = "get"

\* the attempt for a stuck task ends with cancel and probe failed
stuck_unrecovered ==
    recovery_pc = "probe" /\ recovery_stuck # NoTask /\ recovery_pc' = "sleep"

\* C23 as stated: for a BROKEN(TASK_STUCK) agent with a stuck task id the
\* recovery loop issues a cancel; the agent is AVAILABLE after an acknowledged
\* cancel or a successful probe, and BROKEN(OFFLINE) after both have failed
C23_StuckRecovery ==
    [][/\ cancel_issued
       /\ stuck_recovered => agent_registry'.statuses[recovery_item[1]] = "AVAILABLE"
       /\ stuck_unrecovered =>
              /\ agent_registry'.statuses[recovery_item[1]] = "BROKEN"
              /\ agent_registry'.broken_reasons[recovery_item[1]] = "OFFLINE"]_vars

\* C23, amended: the same for an agent that is still registered when the
\* cancel or the probe has answered; for an agent that discovery has removed
\* meanwhile the registry is left unchanged
C23_StuckRecoveryIfRegistered ==
    [][/\ cancel_issued
       /\ (stuck_recovered \/ stuck_unrecovered) =>
              LET a == recovery_item[1] IN
                  IF contains(agent_registry, a)
                  THEN /\ stuck_recovered => agent_registry'.statuses[a] = "AVAILABLE"
                       /\ stuck_unrecovered =>
                              /\ agent_registry'.statuses[a] = "BROKEN"
                              /\ agent_registry'.broken_reasons[a] = "OFFLINE"
                  ELSE agent_registry' = agent_registry]_vars

\* cancel and probe have failed for a stuck task: the agent is
\* BROKEN(OFFLINE), its tuple waits for the re-enqueue
C23_Witness ==
    /\ recovery_pc = "sleep"
    /\ contains(agent_registry, recovery_item[1])
    /\ agent_registry.statuses[recovery_item[1]] = "BROKEN"
    /\ agent_registry.broken_reasons[recovery_item[1]] = "OFFLINE"
    /\ agent_registry.stuck_task_ids[recovery_item[1]] # NoTask

\* the head of the recovery channel names a registered agent that is
\* BROKEN(OFFLINE), and the tuple is not too old
offline_tuple ==
    /\ recovery_pc = "get"
    /\ cancellation_queue # <<>>
    /\ Head(cancellation_queue)[2] <= GiveUpSeconds
    /\ LET a == Head(cancellation_queue)[1] IN
           /\ contains(agent_registry, a)
           /\ agent_registry.statuses[a] = "BROKEN"
           /\ agent_registry.broken_reasons[a] = "OFFLINE"

\* C24: for a BROKEN(OFFLINE) agent the recovery loop probes without a
\* cancel; the tuple is consumed, and the agent made AVAILABLE if it is still
\* registered, only in a step whose probe succeeds; after a failed probe the
\* registry is unchanged, the loop sleeps holding the tuple and then puts that
\* tuple back on the channel
C24_OfflineRecovery ==
    [][/\ (offline_tuple /\ recovery_pc' # "get") =>
              /\ recovery_pc' = "probe"
              /\ recovery_stuck' = NoTask
              /\ recovery_item' = Head(cancellation_queue)
       /\ (recovery_pc = "probe" /\ recovery_stuck = NoTask /\ recovery_pc' # "probe") =>
              LET a == recovery_item[1] IN
                  IF fetch_agent_card(recovery_card) # Down
                  THEN /\ recovery_pc' = "get"
                       /\ cancellation_queue' = cancellation_queue
                       /\ contains(agent_registry, a) =>
                              agent_registry'.statuses[a] = "AVAILABLE"
                  ELSE /\ recovery_pc' = "sleep"
                       /\ recovery_item' = recovery_item
                       /\ agent_registry' = agent_registry
       /\ (recovery_pc = "sleep" /\ recovery_pc' # "sleep") =>
              /\ recovery_pc' = "get"
              /\ agent_registry' = agent_registry
              /\ Len(cancellation_queue') = Len(cancellation_queue) + 1
              /\ cancellation_queue'[Len(cancellation_queue')][1] = recovery_item[1]]_vars

\* the probe of a BROKEN(OFFLINE) agent has failed and its tuple is back on
\* the channel, the agent still BROKEN(OFFLINE)
C24_Witness ==
    /\ recovery_pc = "get"
    /\ cancellation_queue # <<>>
    /\ LET a == cancellation_queue[Len(cancellation_queue)][1] IN
           /\ contains(agent_registry, a)
           /\ agent_registry.statuses[a] = "BROKEN"
           /\ agent_registry.broken_reasons[a] = "OFFLINE"
           /\ agent_registry.stuck_task_ids[a] = NoTask
           /\ fetch_agent_card(agent_registry.cards[a]) = Down

\* C25: the tuple the recovery loop puts back is the tuple it took, with the
\* time it was first enqueued (its age goes on counting); a tuple that is
\* older than 24 hours when it is taken is dropped in that step, with the
\* registry unchanged, nothing put on the channel and no recovery attempt
C25_GiveUpAfterADay ==
    [][/\ (recovery_pc = "sleep" /\ recovery_pc' = "get") =>
              cancellation_queue' = Append(cancellation_queue, recovery_item)
       /\ (/\ recovery_pc = "get"
           /\ cancellation_queue # <<>>
           /\ Len(cancellation_queue') < Len(cancellation_queue)
           /\ Head(cancellation_queue)[2] > GiveUpSeconds) =>
              /\ cancellation_queue' = Tail(cancellation_queue)
              /\ recovery_pc' = "get"
              /\ agent_registry' = agent_registry]_vars

\* the tuple at the head of the channel is more than 24 hours old and its
\* agent is BROKEN and unreachable: the next attempt drops it
C25_Witness ==
    /\ recovery_pc = "get"
    /\ cancellation_queue # <<>>
    /\ Head(cancellation_queue)[2] > GiveUpSeconds
    /\ contains(agent_registry, Head(cancellation_queue)[1])
    /\ agent_registry.statuses[Head(cancellation_queue)[1]] = "BROKEN"
    /\ fetch_agent_card(agent_registry.cards[Head(cancellation_queue)[1]]) = Down

\* the step in which the worker of agent a takes an item and its dispatch fails
worker_fails(a) ==
    /\ worker_pc[a] = "check"
    /\ worker_pc'[a] # "check"
    /\ get_status(agent_registry, a) = "AVAILABLE"
    /\ test_queue # <<>>

\* C26: a worker whose dispatch fails puts the item back at the tail of the
\* queue and records nothing if another agent of its pool is not BROKEN,
\* appends one "error" result for the item if every other agent of the pool
\* is BROKEN, and exits in both cases
C26_RequeueAtTailOrError ==
    [][\A a \in AgentIds :
          worker_fails(a) =>
              LET item == Head(test_queue)
                  others_alive ==
                      \E other \in valid_agent_ids \ {a} :
                          agent_registry.statuses[other] \in {"AVAILABLE", "BUSY"} IN
                  /\ worker_pc'[a] = "exit"
                  /\ IF others_alive
                     THEN /\ test_queue' = Append(Tail(test_queue), item)
                          /\ results' = results
                     ELSE /\ test_queue' = Tail(test_queue)
                          /\ results' = Append(results, <<item, "error">>)]_vars

\* the first item of a group of two has been put back behind the second
\* by a worker that has exited
C26_Witness ==
    /\ group_pc = "running"
    /\ test_queue = <<2, 1>>
    /\ results = <<>>
    /\ \E a \in valid_agent_ids : worker_pc[a] = "exit"

\* C27: the worker whose dispatch fails leaves its agent BROKEN(OFFLINE), and
\* the agent stays so while the group runs
C27_WorkerFailureLeavesOffline ==
    [][\A a \in AgentIds :
          /\ worker_fails(a) =>
                 /\ agent_registry'.statuses[a] = "BROKEN"
                 /\ agent_registry'.broken_reasons[a] = "OFFLINE"
          /\ (worker_pc[a] = "exit" /\ group_pc' = "running") =>
                 /\ agent_registry'.statuses[a] = agent_registry.statuses[a]
                 /\ agent_registry'.broken_reasons[a] = agent_registry.broken_reasons[a]]_vars

\* items that a worker has taken from the queue and for which it has not yet
\* called task_done: what the queue counts as unfinished and is not queued
checked_out == unfinished - Len(test_queue)

\* C28: whenever a worker is suspended no item is checked out, and when the
\* workers have been cancelled the queue is empty and nothing is unfinished
C28_NoItemCheckedOut ==
    /\ group_pc \in {"running", "done"} => checked_out = 0
    /\ (\E a \in AgentIds : worker_pc[a] = "cancelled") =>
           /\ test_queue = <<>>
           /\ unfinished = 0

\* a group has completed with a result and has cancelled a worker that had
\* not taken any item
C28_Witness ==
    /\ group_pc = "done"
    /\ results # <<>>
    /\ \E a \in valid_agent_ids : worker_pc[a] = "cancelled"

\* C29: the TaskRecord of a dispatch that returns a completed task goes from
\* RUNNING to COMPLETED in the step that ends the dispatch; a record becomes
\* COMPLETED in no other way, and a COMPLETED record is never written again
C29_CompletedOnceAndFinal ==
    [][/\ \A d \in Dispatches :
              (pc[d] = "stream" /\ pc'[d] = "done" /\ outcome'[d] = "completed") =>
                  /\ task_history.by_id[internal_task_id[d]] = "RUNNING"
                  /\ task_history'.by_id[internal_task_id[d]] = "COMPLETED"
       /\ \A t \in TaskIds :
              /\ task_history.by_id[t] = "COMPLETED" =>
                     task_history'.by_id[t] = "COMPLETED"
              /\ (task_history.by_id[t] # "COMPLETED"
                     /\ task_history'.by_id[t] = "COMPLETED") =>
                     \E d \in Dispatches :
                         /\ internal_task_id[d] = t
                         /\ pc[d] = "stream"
                         /\ outcome'[d] = "completed"]_vars

\* a dispatch is in its stream while the record of an earlier dispatch is
\* COMPLETED
C29_Witness ==
    \E d \in Dispatches :
        /\ pc[d] = "stream"
        /\ task_history.by_id[internal_task_id[d]] = "RUNNING"
        /\ \E t \in TaskIds : t # internal_task_id[d] /\ task_history.by_id[t] = "COMPLETED"

\* C30: after update_status(id, BROKEN, reason, stuck_task_id) on a
\* registered agent get_broken_context and get_broken_agents report that
\* reason and that stuck task id, and after update_status(id, AVAILABLE) no
\* reason, no stuck task and no entry among the broken agents
C30_BrokenContextIsLastWritten ==
    [][\A id \in ApiIds, reason \in BrokenReasons, stuck_task_id \in ApiTasks :
          contains(agent_registry, id) =>
              /\ api_update_status(id, "BROKEN", reason, stuck_task_id) =>
                     /\ get_broken_context(agent_registry', id) = <<reason, stuck_task_id>>
                     /\ id \in DOMAIN get_broken_agents(agent_registry')
                     /\ get_broken_agents(agent_registry')[id] = <<reason, stuck_task_id>>
              /\ api_update_status(id, "AVAILABLE", reason, stuck_task_id) =>
                     /\ get_broken_context(agent_registry', id) = <<None, NoTask>>
                     /\ id \notin DOMAIN get_broken_agents(agent_registry')]_vars

\* C31: what the dashboard got from get_all or get_by_id does not change
\* afterwards: the records it holds read as they did when it got them
C31_AccessorsReturnOwnedCopies ==
    fields(task_history, reader.records) = reader.seen

\* the n newest records of the error history, newest first
newest(errors, n) ==
    [i \in 1..(IF n < Len(errors) THEN n ELSE Len(errors)) |-> errors[Len(errors) + 1 - i]]

\* C32: the error history never holds more than ErrorHistoryMaxSize records
\* and an add to a full history evicts exactly the oldest; get_all returns the
\* records newest first; get_recent(n) returns the n newest records, newest
\* first, so at most n records for every n >= 0
C32_ErrorHistoryRing ==
    /\ [](Len(error_history) <= ErrorHistoryMaxSize)
    /\ [][error_history_add =>
             IF Len(error_history) = ErrorHistoryMaxSize
             THEN SubSeq(error_history', 1, ErrorHistoryMaxSize - 1) = Tail(error_history)
             ELSE SubSeq(error_history', 1, Len(error_history)) = error_history]_vars
    /\ [][errors_get_all =>
             errors_read'.records = newest(error_history, Len(error_history))]_vars
    /\ [][\A n \in Limits : get_recent_errors(n) /\ n >= 0 =>
             /\ errors_read'.records = newest(error_history, n)
             /\ Len(errors_read'.records) <= n]_vars

\* the lines of the agent logs that are not blank, in order
RECURSIVE nonblank(_)
nonblank(lines) ==
    IF lines = <<>> THEN <<>>
    ELSE IF is_blank(Head(lines)) THEN nonblank(Tail(lines))
    ELSE <<Head(lines)>> \o nonblank(Tail(lines))

RECURSIVE all_lines(_)
all_lines(logs) == IF logs = <<>> THEN <<>> ELSE Head(logs) \o all_lines(Tail(logs))

\* a line in the canonical shape: timestamp - logger - level - message
canonical(line) ==
    /\ Len(line) >= 4
    /\ strptime_isoformat(strip(line[1])) # None
    /\ upper(strip(line[3])) \in LevelNames

\* a line without a timestamp: fewer than three parts, none of them a date
without_timestamp(line) ==
    /\ Len(line) < 3
    /\ \A i \in 1..Len(line) : strptime_isoformat(strip(line[i])) = None

\* a line of unknown shape: fewer than three parts
unknown_shape(line) == Len(line) < 3

\* C33: _parse_agent_logs produces one entry per non-blank line; a line
\* without a timestamp gets the empty string as timestamp, a line without a
\* level gets level INFO, a line of unknown shape is kept whole as the
\* message, and a line in the canonical shape keeps its level
C33_ParseDegradesGracefully ==
    entries # <<>> =>
        LET lines == nonblank(all_lines(raw_logs))
        IN  /\ Len(entries) = Len(lines)
            /\ \A i \in 1..Len(lines) :
                   /\ without_timestamp(lines[i]) => entries[i].timestamp = ""
                   /\ unknown_shape(lines[i]) =>
                          /\ entries[i].level = "INFO"
                          /\ entries[i].message = lines[i]
                   /\ canonical(lines[i]) => entries[i].level = upper(strip(lines[i][3]))

\* C34: under fair scheduling, a registered agent that is BROKEN and stays
\* registered and reachable becomes AVAILABLE again, whichever path marked it
C34_BrokenIsRecovered ==
    \A a \in AgentIds :
        (/\ contains(agent_registry, a)
         /\ get_status(agent_registry, a) = "BROKEN"
         /\ fetch_agent_card(get_card(agent_registry, a)) # Down)
            ~> (~contains(agent_registry, a) \/ get_status(agent_registry, a) = "AVAILABLE")

\* C35: a step of the recovery loop leaves status, current task and broken
\* context of every agent untouched that is not BROKEN at that moment
C35_RecoveryChangesOnlyBroken ==
    [][recovery =>
           \A a \in AgentIds :
               agent_registry.statuses[a] # "BROKEN" =>
                   entry(agent_registry', a) = entry(agent_registry, a)]_vars

\* the worker of agent a takes an item from the queue
takes_item(a) ==
    /\ agent_worker_check(a)
    /\ get_status(agent_registry, a) = "AVAILABLE"
    /\ test_queue # <<>>

\* C36: the item a worker takes is dispatched to the worker's own agent: the
\* step reserves that agent (BUSY with a current task), and an agent that a
\* worker marks BROKEN is one a dispatch was running on
C36_WorkerDispatchesToOwnAgent ==
    [][\A a \in AgentIds :
          /\ takes_item(a) =>
                 /\ agent_registry'.statuses[a] = "BUSY"
                 /\ agent_registry'.current_tasks[a] # NoTask
          /\ (agent_worker_check(a) /\ agent_registry'.statuses[a] = "BROKEN"
                  /\ agent_registry.statuses[a] # "BROKEN") =>
                 /\ agent_registry.statuses[a] = "BUSY"
                 /\ agent_registry.current_tasks[a] # NoTask]_vars

\* a registered agent that is BUSY and was not in the snapshot offered to the
\* oracle of dispatch d: the oracle has not judged whether it suits the task
unjudged_busy(d) ==
    {a \in AgentIds : /\ contains(agent_registry, a)
                      /\ get_status(agent_registry, a) = "BUSY"
                      /\ a \notin available_agent_ids[d]}

\* C37: a dispatch ends with NoneSuitable only when the oracle has judged
\* every registered agent that could take the task; while a registered agent
\* is BUSY and unjudged, the dispatch waits instead
C37_NoneSuitableOnlyIfNoneRegisteredSuits ==
    [][\A d \in Dispatches :
          (pc[d] = "oracle" /\ outcome'[d] = "NoneSuitable") => unjudged_busy(d) = {}]_vars

\* C38: every id that has a status, a broken reason, a stuck task id or a
\* current task in the registry also has a card
C38_PerAgentStateHasCard ==
    \A a \in AgentIds :
        (\/ agent_registry.statuses[a] # None
         \/ agent_registry.broken_reasons[a] # None
         \/ agent_registry.stuck_task_ids[a] # NoTask
         \/ agent_registry.current_tasks[a] # NoTask)
            => agent_registry.cards[a] # None

\* the task ids of the records in the ring buffer
in_buffer(h) == {h.tasks[i] : i \in 1..Len(h.tasks)}

\* the task ids that get_by_id finds
in_index(h) == {t \in DOMAIN h.by_id : h.by_id[t] # None}

\* C39: the id index of the task history and its ring buffer hold the same
\* records, so the index never holds more than TaskHistoryMaxSize ids
C39_IndexEqualsBuffer ==
    /\ in_index(task_history) = in_buffer(task_history)
    /\ Cardinality(in_index(task_history)) <= TaskHistoryMaxSize

====
